---- MODULE Spec2Model ----
(***************************************************************************)
(* Model of the scanning core of hidden-character-detector:                *)
(*   src/src/core/detector.ts          detectHiddenCharacters              *)
(*   src/src/core/hiddenCharacters.ts  the category registry               *)
(* A text is a sequence of UTF-16 code units (numbers); positions are      *)
(* 0-based as in the source, so unit k of a text is txt[k + 1].            *)
(* One step of the behaviour is one iteration of the scanner's main loop.  *)
(***************************************************************************)
EXTENDS Integers, Sequences, FiniteSets, TLC

VARIABLES text, i, line, currentLineStartIndex, results, pc, returned

\* the findings list handed to a builder of the rendering layer, and what
\* the builder made of it
VARIABLES hiddenCharacters, rendered

\* src/unnamed/part_001 (the extension entry point with workspace scanning):
\* its module-level state, the editor and workspace it talks to, and the
\* position of its asynchronous workspace scan
VARIABLES scanResults, diagnosticCollection, decorations, statusBarItem,
          activeTextEditor, openDocuments, workspaceFiles, fileContent,
          configuration,
          workspaceScanIntervalTimer, intervalTimers, pendingTimeouts,
          isWorkspaceScanRunning, workspaceScan, extension

scannerVars == <<text, i, line, currentLineStartIndex, results, pc, returned>>

renderVars == <<hiddenCharacters, rendered>>

extensionVars ==
    <<scanResults, diagnosticCollection, decorations, statusBarItem,
      activeTextEditor, openDocuments, workspaceFiles, fileContent,
      configuration,
      workspaceScanIntervalTimer, intervalTimers, pendingTimeouts,
      isWorkspaceScanRunning, workspaceScan, extension>>

vars == <<scannerVars, renderVars, extensionVars>>

\* a Map or a collection without entries
EmptyMap == [u \in {} |-> <<>>]

\* no workspace scan has started
NoWorkspaceScan ==
    [phase |-> "idle", files |-> <<>>, index |-> 0, showProgress |-> FALSE,
     isCancellationRequested |-> FALSE]

\* no builder of the rendering layer has been called
NothingRendered == [by |-> "none", entries |-> <<>>, gutter |-> <<>>]

\* the extension before activate() has run
ExtensionNotLoaded ==
    /\ scanResults = EmptyMap
    /\ diagnosticCollection = EmptyMap
    /\ decorations = EmptyMap
    /\ statusBarItem = [visible |-> FALSE, text |-> ""]
    /\ activeTextEditor = "undefined"
    /\ openDocuments = {}
    /\ workspaceFiles = {}
    /\ fileContent = EmptyMap
    /\ configuration = [scanOnSave |-> TRUE, enabled |-> FALSE]
    /\ workspaceScanIntervalTimer = 0
    /\ intervalTimers = {}
    /\ pendingTimeouts = 0
    /\ isWorkspaceScanRunning = FALSE
    /\ workspaceScan = NoWorkspaceScan
    /\ extension = "notLoaded"

(***************************************************************************)
(* Bounds of the model.                                                    *)
(***************************************************************************)
\* longest text drawn from the full unit alphabet
MaxLen == 3
\* longest run of binary-pattern characters in the structured texts
MaxRun == 9
\* most joiners in a generated emoji sequence
MaxJoins == 2
\* longest text over the full unit alphabet in the fair specification
MaxFairLen == 2
\* most calls of detectHiddenCharacters in one session
MaxCalls == 3
\* longest findings list handed to a builder of the rendering layer
MaxFindings == 2
\* most initial-scan timeouts of setupAutomaticWorkspaceScan that are pending
MaxPendingTimeouts == 1

(***************************************************************************)
(* Code units and code points.                                             *)
(***************************************************************************)
NEWLINE == 10
VS16 == 65039
ZWJ == 8205
ZWSP == 8203

At(txt, k) == txt[k + 1]

isHighSurrogate(u) == u >= 55296 /\ u <= 56319

isLowSurrogate(u) == u >= 56320 /\ u <= 57343

\* String.prototype.charCodeAt for an index inside the string
charCodeAt(txt, k) == At(txt, k)

codePointAt_UnitOnly(txt, k) == At(txt, k)

\* String.prototype.codePointAt for an index inside the string: a high
\* surrogate followed by a low surrogate is decoded as one scalar value,
\* any other unit (an isolated surrogate included) is returned as it is.
codePointAt(txt, k) ==
    LET u == At(txt, k)
    IN  IF isHighSurrogate(u) /\ k + 1 < Len(txt) /\ isLowSurrogate(At(txt, k + 1))
        THEN (u - 55296) * 1024 + (At(txt, k + 1) - 56320) + 65536
        ELSE u

\* String.prototype.lastIndexOf(unit, fromIndex): the greatest position
\* <= fromIndex holding the unit, or -1
RECURSIVE lastIndexOf(_, _, _)
lastIndexOf(txt, unit, fromIndex) ==
    IF fromIndex < 0 THEN -1
    ELSE IF fromIndex >= Len(txt) THEN lastIndexOf(txt, unit, Len(txt) - 1)
    ELSE IF At(txt, fromIndex) = unit THEN fromIndex
    ELSE lastIndexOf(txt, unit, fromIndex - 1)

(***************************************************************************)
(* Unicode properties used by the regular expressions of the heuristics.   *)
(* The tables are the Unicode data restricted to the ranges below, which   *)
(* cover every code point a text of the model can contain.                 *)
(***************************************************************************)
\* /\p{C}|\p{Z}/u : general categories Cc, Cf, Cs, Co, Cn, Zs, Zl, Zp
IsControlOrSeparator(cp) ==
    \/ cp >= 0 /\ cp <= 31                  \* Cc
    \/ cp >= 127 /\ cp <= 159               \* Cc
    \/ cp = 32 \/ cp = 160                  \* Zs
    \/ cp = 173                             \* Cf soft hyphen
    \/ cp = 5760                            \* Zs U+1680
    \/ cp = 6158                            \* Cf U+180E
    \/ cp >= 8192 /\ cp <= 8202             \* Zs U+2000..U+200A
    \/ cp >= 8203 /\ cp <= 8207             \* Cf U+200B..U+200F
    \/ cp = 8232 \/ cp = 8233               \* Zl, Zp
    \/ cp >= 8234 /\ cp <= 8238             \* Cf U+202A..U+202E
    \/ cp = 8239 \/ cp = 8287               \* Zs
    \/ cp >= 8288 /\ cp <= 8303             \* Cf U+2060..U+206F, Cn U+2065
    \/ cp = 12288                           \* Zs U+3000
    \/ cp >= 55296 /\ cp <= 57343           \* Cs
    \/ cp >= 57344 /\ cp <= 63743           \* Co
    \/ cp = 65279                           \* Cf U+FEFF
    \/ cp >= 917504 /\ cp <= 917759         \* Cf tags, Cn rest of U+E0000..U+E00FF
    \/ cp >= 918000 /\ cp <= 983039         \* Cn U+E01F0..U+EFFFF

\* /\p{Emoji}|\p{Emoji_Modifier_Base}/u (Emoji_Modifier_Base is a subset
\* of Emoji)
IsEmojiComponentBase(cp) ==
    \/ cp = 35 \/ cp = 42                   \* '#', '*'
    \/ cp >= 48 /\ cp <= 57                 \* '0'..'9'
    \/ cp = 169 \/ cp = 174                 \* (c), (r)
    \/ cp = 10084                           \* U+2764
    \/ cp >= 127991 /\ cp <= 128253         \* U+1F3F7..U+1F4FD
    \/ cp >= 128255 /\ cp <= 128317         \* U+1F4FF..U+1F53D
    \/ cp >= 128506 /\ cp <= 128591         \* U+1F5FA..U+1F64F

(***************************************************************************)
(* hiddenCharacters.ts: the four membership sets and the combined map.     *)
(***************************************************************************)
zeroWidthChars_WithSeparators == {8203, 8204, 8205, 65279, 8232, 8233, 6158}

zeroWidthChars == {8203, 8204, 8205, 65279}

ZERO_WIDTH_CATEGORY == "Zero-Width"

ZERO_WIDTH_MESSAGE == "Zero-width character; invisible but can affect text processing."

bidiControlChars == {8234, 8235, 8237, 8238, 8294, 8295, 8296, 8297, 8236}

BIDI_CONTROL_CATEGORY == "Bidirectional Control"

BIDI_CONTROL_MESSAGE == "Bidirectional control character; can alter text display order, potentially obfuscating logic."

deprecatedTagChars == 917504..917631

DEPRECATED_TAG_CATEGORY == "Deprecated Tag"

DEPRECATED_TAG_MESSAGE == "Deprecated Unicode tag character; may be used for obfuscation."

variationSelectors == (65024..65039) \cup (917760..917999)

VARIATION_SELECTOR_CATEGORY == "Variation Selector"

VARIATION_SELECTOR_MESSAGE == "Variation selector; while sometimes legitimate, can be used in confusable character sequences."

\* the value of Map.get for a key that is absent
NoInfo == [category |-> "", message |-> ""]

allHiddenChars_BidiAsZeroWidth(cp) ==
    IF cp \in variationSelectors
    THEN [category |-> VARIATION_SELECTOR_CATEGORY, message |-> VARIATION_SELECTOR_MESSAGE]
    ELSE IF cp \in deprecatedTagChars
    THEN [category |-> DEPRECATED_TAG_CATEGORY, message |-> DEPRECATED_TAG_MESSAGE]
    ELSE IF cp \in bidiControlChars \cup zeroWidthChars
    THEN [category |-> ZERO_WIDTH_CATEGORY, message |-> ZERO_WIDTH_MESSAGE]
    ELSE NoInfo

\* allHiddenChars.get(String.fromCodePoint(cp)); the map is built from the
\* four sets in this order, a later entry replacing an earlier one
allHiddenChars(cp) ==
    IF cp \in variationSelectors
    THEN [category |-> VARIATION_SELECTOR_CATEGORY, message |-> VARIATION_SELECTOR_MESSAGE]
    ELSE IF cp \in deprecatedTagChars
    THEN [category |-> DEPRECATED_TAG_CATEGORY, message |-> DEPRECATED_TAG_MESSAGE]
    ELSE IF cp \in bidiControlChars
    THEN [category |-> BIDI_CONTROL_CATEGORY, message |-> BIDI_CONTROL_MESSAGE]
    ELSE IF cp \in zeroWidthChars
    THEN [category |-> ZERO_WIDTH_CATEGORY, message |-> ZERO_WIDTH_MESSAGE]
    ELSE NoInfo

(***************************************************************************)
(* detector.ts: constants.                                                 *)
(***************************************************************************)
BINARY_ENCODING_CHARS_ZeroWidthOnly == {8203, 8204, 8205, 65279}

BINARY_ENCODING_CHARS == {8203, 8204, 8205, 65279, 8290, 8292}

MIN_PATTERN_LENGTH_Seven == 8 - 1

MIN_PATTERN_LENGTH == 8

BINARY_PATTERN_CATEGORY == "BinaryEncodingPattern"

(***************************************************************************)
(* detector.ts: string formatting of a finding.                            *)
(***************************************************************************)
HexDigits_LowerCase == <<"0", "1", "2", "3", "4", "5", "6", "7", "8", "9", "a", "b", "c", "d", "e", "f">>

HexDigits == <<"0", "1", "2", "3", "4", "5", "6", "7", "8", "9", "A", "B", "C", "D", "E", "F">>

\* Number.prototype.toString(16) followed by toUpperCase()
RECURSIVE toUpperHex(_)
toUpperHex(n) ==
    IF n < 16 THEN HexDigits[n + 1]
    ELSE toUpperHex(n \div 16) \o HexDigits[(n % 16) + 1]

\* Number.prototype.toString(10), as used by the template literals
RECURSIVE toDecimal(_)
toDecimal(n) ==
    IF n < 10 THEN HexDigits[n + 1]
    ELSE toDecimal(n \div 10) \o HexDigits[(n % 10) + 1]

\* String.prototype.padStart(targetLength, "0")
RECURSIVE padStart(_, _)
padStart(str, targetLength) ==
    IF Len(str) >= targetLength THEN str ELSE padStart("0" \o str, targetLength)

\* `U+${startCodePoint.toString(16).toUpperCase().padStart(4, '0')}`
CharacterLabel(startCodePoint) == "U+" \o padStart(toUpperHex(startCodePoint), 4)

\* `[Binary Pattern (${patternLength} chars)]`
PatternLabel(patternLength) == "[Binary Pattern (" \o toDecimal(patternLength) \o " chars)]"

\* the message of a pattern finding
PatternMessage(patternLength) ==
    "Potential binary encoding detected using a sequence of " \o toDecimal(patternLength) \o " zero-width characters."

(***************************************************************************)
(* detector.ts: the inner loop that extends a run (lines 45-76).           *)
(* acc carries patternLength, patternEndIndex, patternEndLine and          *)
(* patternEndColumn; the loop starts with 0, -1, -1, -1.                   *)
(***************************************************************************)
NoPattern ==
    [patternLength |-> 0, patternEndIndex |-> -1, patternEndLine |-> -1, patternEndColumn |-> -1]

RECURSIVE PatternLoop(_, _, _, _, _)
PatternLoop(txt, patternI, currentPatternLine, currentPatternLineStartIndex, acc) ==
    IF patternI >= Len(txt) THEN acc
    ELSE
      LET patternChar == At(txt, patternI)
          patternCodePoint == codePointAt(txt, patternI)
          isPatternSurrogate == patternCodePoint > 65535
          isNewline == patternChar = NEWLINE
      IN  IF patternCodePoint \in BINARY_ENCODING_CHARS
          THEN PatternLoop(txt,
                   IF isPatternSurrogate THEN patternI + 2 ELSE patternI + 1,
                   IF isNewline THEN currentPatternLine + 1 ELSE currentPatternLine,
                   IF isNewline THEN patternI + 1 ELSE currentPatternLineStartIndex,
                   [patternLength    |-> acc.patternLength + 1,
                    patternEndIndex  |-> patternI,
                    patternEndLine   |-> currentPatternLine,
                    patternEndColumn |-> patternI - currentPatternLineStartIndex])
          ELSE acc

\* the pattern variables after lines 40-76 for a cursor at position k
DetectPattern_ColumnFromTextStart(txt, k, ln, lineStart) ==
    IF codePointAt(txt, k) \in BINARY_ENCODING_CHARS
    THEN PatternLoop(txt, k, ln, 0, NoPattern)
    ELSE NoPattern

DetectPattern(txt, k, ln, lineStart) ==
    IF codePointAt(txt, k) \in BINARY_ENCODING_CHARS
    THEN PatternLoop(txt, k, ln, lineStart, NoPattern)
    ELSE NoPattern

\* the test of line 78
IsPattern(pat) == pat.patternLength >= MIN_PATTERN_LENGTH

\* lines 93-94: where the cursor resumes after a pattern
PatternNextI_StopsOnLast(k, patternLength) == k + patternLength - 1

PatternNextI(k, patternLength) == k + patternLength

\* lines 97-98: the line start after a pattern
PatternLineStart_NoSkip(txt, patternEndIndex) ==
    LET found == lastIndexOf(txt, NEWLINE, patternEndIndex)
    IN  IF found = -1 THEN 0 ELSE found

PatternLineStart(txt, patternEndIndex) ==
    LET found == lastIndexOf(txt, NEWLINE, patternEndIndex)
    IN  IF found = -1 THEN 0 ELSE found + 1

\* lines 80-91: the finding pushed for a pattern
PatternFinding_EndExclusive(k, ln, col, pat) ==
    [character |-> PatternLabel(pat.patternLength),
     codePoint |-> -1,
     index     |-> k,
     line      |-> ln,
     column    |-> col,
     endIndex  |-> k + pat.patternLength,
     endLine   |-> pat.patternEndLine,
     endColumn |-> pat.patternEndColumn,
     category  |-> BINARY_PATTERN_CATEGORY,
     message   |-> PatternMessage(pat.patternLength)]

PatternFinding(k, ln, col, pat) ==
    [character |-> PatternLabel(pat.patternLength),
     codePoint |-> -1,
     index     |-> k,
     line      |-> ln,
     column    |-> col,
     endIndex  |-> pat.patternEndIndex,
     endLine   |-> pat.patternEndLine,
     endColumn |-> pat.patternEndColumn,
     category  |-> BINARY_PATTERN_CATEGORY,
     message   |-> PatternMessage(pat.patternLength)]

(***************************************************************************)
(* detector.ts: single-character classification (lines 105-229).           *)
(***************************************************************************)
\* lines 139-166
getPreviousBaseCharStartIndex_NoPairStep(txt, index) ==
    IF index <= 0 THEN -1
    ELSE
      LET first == index - 1
          relevantIndex == IF codePointAt(txt, first) = VS16 THEN first - 1 ELSE first
      IN  IF relevantIndex < 0 THEN -1 ELSE relevantIndex

getPreviousBaseCharStartIndex(txt, index) ==
    IF index <= 0 THEN -1
    ELSE
      LET first == index - 1
          relevantIndex == IF codePointAt(txt, first) = VS16 THEN first - 1 ELSE first
      IN  IF relevantIndex < 0 THEN -1
          ELSE IF /\ isLowSurrogate(charCodeAt(txt, relevantIndex))
                  /\ relevantIndex > 0
                  /\ isHighSurrogate(charCodeAt(txt, relevantIndex - 1))
          THEN relevantIndex - 1
          ELSE relevantIndex

\* lines 169-177: skipDiagnostic for U+FE0F. A code point of 0 is falsy and
\* leaves skipDiagnostic false.
SkipVS16_Inverted(txt, startIndex) ==
    LET prevBaseCharIndex == getPreviousBaseCharStartIndex(txt, startIndex)
    IN  IF prevBaseCharIndex # -1 /\ codePointAt(txt, prevBaseCharIndex) # 0
        THEN IsControlOrSeparator(codePointAt(txt, prevBaseCharIndex))
        ELSE FALSE

SkipVS16(txt, startIndex) ==
    LET prevBaseCharIndex == getPreviousBaseCharStartIndex(txt, startIndex)
    IN  IF prevBaseCharIndex # -1
        THEN LET prevCodePoint == codePointAt(txt, prevBaseCharIndex)
             IN  IF prevCodePoint # 0
                 THEN ~IsControlOrSeparator(prevCodePoint)
                 ELSE FALSE
        ELSE FALSE

\* lines 186-191
precededByEmojiComponent(txt, startIndex) ==
    LET prevBaseCharIndex == getPreviousBaseCharStartIndex(txt, startIndex)
    IN  IF prevBaseCharIndex # -1 /\ codePointAt(txt, prevBaseCharIndex) # 0
        THEN IsEmojiComponentBase(codePointAt(txt, prevBaseCharIndex))
        ELSE FALSE

\* lines 195-199
succeededByPotentialComponent(txt, startIndex) ==
    LET nextCharIndex == startIndex + 1
    IN  IF nextCharIndex < Len(txt) /\ codePointAt(txt, nextCharIndex) # 0
        THEN \/ codePointAt(txt, nextCharIndex) = VS16
             \/ ~IsControlOrSeparator(codePointAt(txt, nextCharIndex))
        ELSE FALSE

\* line 201: skipDiagnostic for U+200D
SkipZWJ_Either(txt, startIndex) ==
    precededByEmojiComponent(txt, startIndex) \/ succeededByPotentialComponent(txt, startIndex)

SkipZWJ(txt, startIndex) ==
    precededByEmojiComponent(txt, startIndex) /\ succeededByPotentialComponent(txt, startIndex)

\* lines 108-216
skipDiagnostic_AnyZeroWidth(txt, startIndex, startCodePoint) ==
    IF startCodePoint = VS16 THEN SkipVS16(txt, startIndex)
    ELSE IF startCodePoint \in zeroWidthChars THEN SkipZWJ(txt, startIndex)
    ELSE FALSE

skipDiagnostic(txt, startIndex, startCodePoint) ==
    IF startCodePoint = VS16 THEN SkipVS16(txt, startIndex)
    ELSE IF startCodePoint = ZWJ THEN SkipZWJ(txt, startIndex)
    ELSE FALSE

\* lines 220-228: the finding pushed for a single character
SingleFinding_WithEnd(k, ln, col, startCodePoint, hiddenInfo) ==
    [character |-> CharacterLabel(startCodePoint),
     codePoint |-> startCodePoint,
     index     |-> k,
     line      |-> ln,
     column    |-> col,
     endIndex  |-> k,
     endLine   |-> ln,
     endColumn |-> col,
     category  |-> hiddenInfo.category,
     message   |-> hiddenInfo.message]

SingleFinding(k, ln, col, startCodePoint, hiddenInfo) ==
    [character |-> CharacterLabel(startCodePoint),
     codePoint |-> startCodePoint,
     index     |-> k,
     line      |-> ln,
     column    |-> col,
     category  |-> hiddenInfo.category,
     message   |-> hiddenInfo.message]

\* lines 241-246: where the cursor resumes after a single code point
SingleNextI_AlwaysOne(k, isStartSurrogate) == k + 1

SingleNextI(k, isStartSurrogate) == IF isStartSurrogate THEN k + 2 ELSE k + 1

\* Array.prototype.push
Push_AtFront(list, item) == <<item>> \o list

Push(list, item) == Append(list, item)

(***************************************************************************)
(* The texts that are scanned.                                             *)
(***************************************************************************)
\* NUL, newline, space, '1', 'a', U+200B, U+200D, U+2028, U+202A, U+2062,
\* U+2764, U+FE0F, the high surrogates D83D and DB40 and the low surrogates
\* DC01, DD00 and DE00 (D83D DE00 is U+1F600, DB40 DC01 is U+E0001,
\* DB40 DD00 is U+E0100)
Units ==
    {0, 10, 32, 49, 97, 8203, 8205, 8232, 8234, 8290, 10084, 65039,
     55357, 56128, 56321, 56576, 56832}

\* every text of at most MaxLen units over Units
ShortTexts == UNION {[1..n -> Units] : n \in 0..MaxLen}

\* a run of n units that alternates x and y
Run(x, y, n) == [k \in 1..n |-> IF k % 2 = 1 THEN x ELSE y]

RunPairs == {<<8203, 8203>>, <<8203, 8205>>, <<8290, 8203>>, <<8205, 8290>>}

RunPrefixes == {<<>>, <<97>>, <<10>>, <<55357, 56832>>}

RunSeparators == {<<10>>, <<97>>, <<65039>>}

RunSuffixes == {<<>>, <<8234>>, <<10, 8203>>}

\* a prefix, a run of up to MaxRun pattern characters, a separator, a run
\* of up to MaxRun zero-width spaces and a suffix
RunTexts ==
    {pre \o Run(xy[1], xy[2], n) \o sep \o Run(ZWSP, ZWSP, m) \o suf :
        pre \in RunPrefixes, xy \in RunPairs, n \in 0..MaxRun,
        sep \in RunSeparators, m \in 0..MaxRun, suf \in RunSuffixes}

\* the six members of BINARY_ENCODING_CHARS in turn
AlphabetCycle == <<8203, 8290, 8204, 8292, 8205, 65279>>

\* a run of n units that goes round the six members
MixedRun(n) == [k \in 1..n |-> AlphabetCycle[((k - 1) % 6) + 1]]

\* runs of U+2062 and U+2064 only, and runs of all six members, alone and
\* next to a letter
OperatorTexts ==
    {pre \o run \o suf :
        pre \in {<<>>, <<97>>}, suf \in {<<>>, <<97>>},
        run \in UNION {{Run(8290, 8292, n), Run(8292, 8292, n), MixedRun(n)} :
                          n \in 0..MaxRun}}

\* variation selectors after one another: U+FE0E or U+E0100 before a
\* U+FE0F, and chains of two and three U+FE0F
SelectorChains ==
    {<<65038, 65039>>, <<56128, 56576, 65039>>, <<65039, 65039>>,
     <<65039, 65039, 65039>>, <<65038, 65039, 65039>>}

\* a chain at position 0, right after a newline, after a letter and after
\* an emoji
SelectorTexts ==
    {pre \o ch \o suf :
        pre \in {<<>>, <<10>>, <<97>>, <<97, 10>>, <<10084>>},
        ch \in SelectorChains, suf \in {<<>>, <<97>>}}

\* a letter, a zero-width space, and the line terminators of JavaScript
\* other than a lone U+000A: '\r', '\r\n', U+2028 and U+2029
LinePieces == {<<>>, <<97>>, <<8203>>, <<13>>, <<13, 10>>, <<8232>>, <<8233>>}

\* four pieces and a bidirectional control, and a run of eight zero-width
\* spaces between line terminators
LineEndTexts ==
    {a \o b \o c \o d \o <<8234>> :
        a \in LinePieces, b \in LinePieces, c \in LinePieces, d \in LinePieces}
        \cup {pre \o Run(ZWSP, ZWSP, 8) \o suf :
                 pre \in {<<13>>, <<13, 10>>, <<8233>>},
                 suf \in {<<13, 10, 8203>>, <<13, 8203>>, <<8233, 8203>>}}

JoinerBases ==
    {<<>>, <<0>>, <<32>>, <<35>>, <<42>>, <<49>>, <<97>>, <<10084>>,
     <<55357, 56832>>, <<56128, 56321>>, <<56832>>}

JoinerNexts ==
    {<<>>, <<0>>, <<32>>, <<97>>, <<10084>>, <<65039>>,
     <<55357, 56832>>, <<56128, 56321>>}

\* a base, an optional U+FE0F, a zero-width joiner and a following character
JoinerTexts ==
    {b \o v \o <<ZWJ>> \o nx :
        b \in JoinerBases, v \in {<<>>, <<VS16>>}, nx \in JoinerNexts}

\* emoji sequences: a base with the Emoji property, an optional U+FE0F,
\* and up to MaxJoins further such elements, each joined by U+200D
EmojiBases == {<<49>>, <<10084>>, <<55357, 56832>>}

EmojiElements == {b \o v : b \in EmojiBases, v \in {<<>>, <<VS16>>}}

RECURSIVE EmojiSequences(_)
EmojiSequences(joins) ==
    IF joins = 0 THEN EmojiElements
    ELSE EmojiSequences(joins - 1) \cup
         {sq \o <<ZWJ>> \o el : sq \in EmojiSequences(joins - 1), el \in EmojiElements}

EmojiSequenceTexts == EmojiSequences(MaxJoins)

\* U+200B, U+200C, U+FEFF, U+202A, U+202E, U+2066, U+FE00, U+E0100,
\* U+E0001 and U+E0000
RegistryMembers ==
    {<<8203>>, <<8204>>, <<65279>>, <<8234>>, <<8238>>, <<8294>>, <<65024>>,
     <<56128, 56576>>, <<56128, 56321>>, <<56128, 56320>>}

\* a registry member between any base and any following character
RegistryTexts ==
    {b \o c \o nx : b \in JoinerBases, c \in RegistryMembers, nx \in JoinerNexts}

\* the texts of src/src/test/core/detector.test.ts
TEXT_PLAIN ==
    <<72, 101, 108, 108, 111, 32, 119, 111, 114, 108, 100>>

TEXT_SINGLE_ZWSP ==
    <<72, 101, 108, 108, 111, 8203, 119, 111, 114, 108, 100>>

TEXT_MULTIPLE ==
    <<72, 101, 108, 8203, 108, 111, 8234, 119, 111, 114, 108, 100, 65039>>

TEXT_BEGIN_END ==
    <<65279, 72, 101, 108, 108, 111, 32, 119, 111, 114, 108, 100, 8205>>

TEXT_MULTILINE ==
    <<76, 105, 110, 101, 32, 49, 10, 76, 105, 110, 101, 32, 50, 32, 104, 97,
      115, 32, 8204, 97, 32, 90, 87, 78, 74, 10, 76, 105, 110, 101, 8294, 51>>

TEXT_VS17 ==
    <<84, 101, 115, 116, 32, 56128, 56576, 32, 86, 83, 49, 55>>

TEXT_TAG ==
    <<84, 97, 103, 32, 56128, 56321, 32, 104, 101, 114, 101>>

TestTexts ==
    {<<>>, TEXT_PLAIN, TEXT_SINGLE_ZWSP, TEXT_MULTIPLE, TEXT_BEGIN_END,
     TEXT_MULTILINE, TEXT_VS17, TEXT_TAG}

Inputs ==
    ShortTexts \cup RunTexts \cup OperatorTexts \cup SelectorTexts \cup LineEndTexts
        \cup JoinerTexts \cup EmojiSequenceTexts \cup RegistryTexts \cup TestTexts

(***************************************************************************)
(* detectHiddenCharacters as a state machine: one step per iteration of    *)
(* the main loop (lines 30-249).                                           *)
(***************************************************************************)
Init ==
    /\ text \in Inputs
    /\ i = 0
    /\ line = 1
    /\ currentLineStartIndex = 0
    /\ results = <<>>
    /\ pc = "scan"
    /\ returned = <<>>
    /\ hiddenCharacters = <<>>
    /\ rendered = NothingRendered
    /\ ExtensionNotLoaded

\* lines 78-99: the run starting at the cursor is long enough
PatternBranch ==
    /\ pc = "scan"
    /\ i < Len(text)
    /\ LET startColumn == i - currentLineStartIndex
           pat == DetectPattern(text, i, line, currentLineStartIndex)
       IN  /\ IsPattern(pat)
           /\ results' = Push(results, PatternFinding(i, line, startColumn, pat))
           /\ i' = PatternNextI(i, pat.patternLength)
           /\ line' = pat.patternEndLine
           /\ currentLineStartIndex' = PatternLineStart(text, pat.patternEndIndex)
    /\ UNCHANGED <<text, pc, returned, renderVars, extensionVars>>

\* line 235: the only character that starts a new line
startsNewLine_AnyLineTerminator(startChar) == startChar \in {10, 13, 8232, 8233}

startsNewLine(startChar) == startChar = NEWLINE

\* lines 101-248: no run, or a run that is too short
SingleCharacterBranch ==
    /\ pc = "scan"
    /\ i < Len(text)
    /\ LET startColumn == i - currentLineStartIndex
           startChar == At(text, i)
           startCodePoint == codePointAt(text, i)
           isStartSurrogate == startCodePoint > 65535
           pat == DetectPattern(text, i, line, currentLineStartIndex)
           hiddenInfo == allHiddenChars(startCodePoint)
       IN  /\ ~IsPattern(pat)
           /\ results' =
                IF hiddenInfo # NoInfo /\ ~skipDiagnostic(text, i, startCodePoint)
                THEN Push(results, SingleFinding(i, line, startColumn, startCodePoint, hiddenInfo))
                ELSE results
           /\ line' = IF startsNewLine(startChar) THEN line + 1 ELSE line
           /\ currentLineStartIndex' =
                IF startsNewLine(startChar) THEN i + 1 ELSE currentLineStartIndex
           /\ i' = SingleNextI(i, isStartSurrogate)
    /\ UNCHANGED <<text, pc, returned, renderVars, extensionVars>>

\* lines 30 and 251: the loop ends and the list is returned
ReturnResults ==
    /\ pc = "scan"
    /\ i >= Len(text)
    /\ pc' = "done"
    /\ returned' = Append(returned, [text |-> text, results |-> results])
    /\ UNCHANGED <<text, i, line, currentLineStartIndex, results, renderVars, extensionVars>>

Next == PatternBranch \/ SingleCharacterBranch \/ ReturnResults

Spec == Init /\ [][Next]_vars

(***************************************************************************)
(* A session: the caller invokes detectHiddenCharacters again after a      *)
(* call has returned.  returned is the log of the completed calls.         *)
(***************************************************************************)
FreshLocals_SharedResults(prev) ==
    [i |-> 0, line |-> 1, currentLineStartIndex |-> 0, results |-> prev.results]

\* lines 25-29: the locals of a call are declared inside the function, so
\* they start from the same values whatever the previous call left behind
FreshLocals(prev) ==
    [i |-> 0, line |-> 1, currentLineStartIndex |-> 0, results |-> <<>>]

\* the texts of a session: clean, one finding, several lines, a run
CallTexts ==
    {<<>>,
     <<97, 10, 98>>,
     <<8203>>,
     <<10, 8234, 10>>,
     <<55357, 56832, 8205>>,
     Run(ZWSP, ZWJ, MIN_PATTERN_LENGTH),
     <<10>> \o Run(ZWSP, ZWJ, MIN_PATTERN_LENGTH) \o <<65039>>}

\* line 24: the next call, on any text
CallAgain ==
    /\ pc = "done"
    /\ Len(returned) < MaxCalls
    /\ text' \in CallTexts
    /\ LET locals == FreshLocals([i |-> i, line |-> line,
                                  currentLineStartIndex |-> currentLineStartIndex,
                                  results |-> results])
       IN  /\ i' = locals.i
           /\ line' = locals.line
           /\ currentLineStartIndex' = locals.currentLineStartIndex
           /\ results' = locals.results
    /\ pc' = "scan"
    /\ UNCHANGED <<returned, renderVars, extensionVars>>

SessionInit ==
    /\ text \in CallTexts
    /\ i = 0
    /\ line = 1
    /\ currentLineStartIndex = 0
    /\ results = <<>>
    /\ pc = "scan"
    /\ returned = <<>>
    /\ hiddenCharacters = <<>>
    /\ rendered = NothingRendered
    /\ ExtensionNotLoaded

SessionNext == Next \/ CallAgain

SessionSpec == SessionInit /\ [][SessionNext]_vars

\* The texts of the fair specification: every text of at most MaxFairLen
\* units, a shortest qualifying run that reaches the end of the text, and
\* one between other characters.
FairTexts ==
    (UNION {[1..n -> Units] : n \in 0..MaxFairLen})
        \cup {Run(ZWSP, ZWJ, MIN_PATTERN_LENGTH),
              <<97>> \o Run(ZWSP, ZWJ, MIN_PATTERN_LENGTH) \o <<10, 8234>>}

FairInit ==
    /\ text \in FairTexts
    /\ i = 0
    /\ line = 1
    /\ currentLineStartIndex = 0
    /\ results = <<>>
    /\ pc = "scan"
    /\ returned = <<>>
    /\ hiddenCharacters = <<>>
    /\ rendered = NothingRendered
    /\ ExtensionNotLoaded

\* the loop is synchronous code: an iteration that can run does run
FairSpec == FairInit /\ [][Next]_vars /\ WF_vars(Next)

TypeOK ==
    /\ text \in Inputs
    /\ i \in 0..Len(text)
    /\ line \in 1..(Len(text) + 1)
    /\ currentLineStartIndex \in 0..Len(text)
    /\ pc \in {"scan", "done"}

(***************************************************************************)
(* The rendering layer: how a findings list becomes diagnostics            *)
(* (createDiagnostic and updateDiagnostics of src/unnamed/part_001,        *)
(* updateDiagnostics of src/src/extension.ts) and decorations              *)
(* (applyDecorations of src/src/ui/decorations.ts).                        *)
(***************************************************************************)
\* info.endLine !== undefined && info.endColumn !== undefined
hasEndCoordinates(info) == {"endLine", "endColumn"} \subseteq DOMAIN info

\* new vscode.Range(startLine, startCharacter, endLine, endCharacter): the
\* constructor orders its two positions
Range(startLine, startCharacter, endLine, endCharacter) ==
    IF endLine < startLine \/ (endLine = startLine /\ endCharacter < startCharacter)
    THEN [start |-> <<endLine, endCharacter>>, end |-> <<startLine, startCharacter>>]
    ELSE [start |-> <<startLine, startCharacter>>, end |-> <<endLine, endCharacter>>]

\* Math.max(0, n)
MathMax0(n) == IF n < 0 THEN 0 ELSE n

\* info.category.toLowerCase().replace(/\s+/g, '-') for the categories of
\* the registry and of the pattern finding
categorySlug(category) ==
    CASE category = ZERO_WIDTH_CATEGORY -> "zero-width"
      [] category = BIDI_CONTROL_CATEGORY -> "bidirectional-control"
      [] category = DEPRECATED_TAG_CATEGORY -> "deprecated-tag"
      [] category = VARIATION_SELECTOR_CATEGORY -> "variation-selector"
      [] category = BINARY_PATTERN_CATEGORY -> "binaryencodingpattern"

\* diagnostic.code
diagnosticCode(info) ==
    "hidden-" \o categorySlug(info.category)
              \o (IF "endLine" \in DOMAIN info THEN "-pattern" ELSE "")

\* the text between the category and the message of a single character
charDisplay(info) ==
    IF info.codePoint > 0
    THEN " (" \o info.character \o " / U+" \o toUpperHex(info.codePoint) \o ")"
    ELSE " (" \o info.character \o ")"

\* a number inside a template literal
numberToString(n) == IF n < 0 THEN "-" \o toDecimal(0 - n) ELSE toDecimal(n)

exclusionGuidance ==
    " (If this is intentional or the file should not be scanned, consider adding it to 'hiddenCharacterDetector.excludePatterns' in your settings.)"

\* what createDiagnostic returns for a finding it rejects
NullDiagnostic == [isNull |-> TRUE]

Diagnostic(range, message, info) ==
    [range    |-> range,
     message  |-> message,
     severity |-> "Warning",
     source   |-> "Hidden Character Detector",
     code     |-> diagnosticCode(info)]

createDiagnostic_EndInclusive(info) ==
    LET ln == info.line - 1
        column == info.column
    IN  IF hasEndCoordinates(info)
        THEN LET endLine == info.endLine - 1
                 endColumn == info.endColumn
             IN  IF \/ ln < 0 \/ column < 0 \/ endLine < ln
                    \/ (endLine = ln /\ endColumn < column)
                 THEN NullDiagnostic
                 ELSE Diagnostic(Range(ln, column, endLine, endColumn),
                                 "Hidden Pattern: " \o info.category \o " - "
                                     \o info.message \o exclusionGuidance,
                                 info)
        ELSE IF ln < 0 \/ column < 0
             THEN NullDiagnostic
             ELSE Diagnostic(Range(ln, column, ln, column + 1),
                             "Hidden Character: " \o info.category \o charDisplay(info)
                                 \o " - " \o info.message \o exclusionGuidance,
                             info)

\* src/unnamed/part_001, lines 93-137
createDiagnostic(info) ==
    LET ln == info.line - 1
        column == info.column
    IN  IF hasEndCoordinates(info)
        THEN LET endLine == info.endLine - 1
                 endColumn == info.endColumn
             IN  IF \/ ln < 0 \/ column < 0 \/ endLine < ln
                    \/ (endLine = ln /\ endColumn < column)
                 THEN NullDiagnostic
                 ELSE Diagnostic(Range(ln, column, endLine, endColumn + 1),
                                 "Hidden Pattern: " \o info.category \o " - "
                                     \o info.message \o exclusionGuidance,
                                 info)
        ELSE IF ln < 0 \/ column < 0
             THEN NullDiagnostic
             ELSE Diagnostic(Range(ln, column, ln, column + 1),
                             "Hidden Character: " \o info.category \o charDisplay(info)
                                 \o " - " \o info.message \o exclusionGuidance,
                             info)

\* results.map(createDiagnostic).filter(d => d !== null)
RECURSIVE buildDiagnostics(_)
buildDiagnostics(list) ==
    IF list = <<>> THEN <<>>
    ELSE LET d == createDiagnostic(Head(list))
         IN  IF d = NullDiagnostic
             THEN buildDiagnostics(Tail(list))
             ELSE <<d>> \o buildDiagnostics(Tail(list))

\* src/src/extension.ts, lines 70-119: the diagnostic that the copy of
\* updateDiagnostics without createDiagnostic makes of one finding
diagnosticOfExtensionTs(info) ==
    LET ln == info.line - 1
        column == info.column
    IN  IF hasEndCoordinates(info)
        THEN LET endLine == info.endLine - 1
                 endColumn == info.endColumn
             IN  IF \/ ln < 0 \/ column < 0 \/ endLine < ln
                    \/ (endLine = ln /\ endColumn < column)
                 THEN Diagnostic(Range(MathMax0(ln), MathMax0(column),
                                       MathMax0(ln), MathMax0(column + 1)),
                                 "Hidden Pattern: " \o info.category
                                     \o " - Invalid range detected (Start: L"
                                     \o numberToString(info.line) \o "C"
                                     \o numberToString(info.column) \o ", End: L"
                                     \o numberToString(info.endLine) \o "C"
                                     \o numberToString(info.endColumn) \o "). "
                                     \o info.message,
                                 info)
                 ELSE Diagnostic(Range(ln, column, endLine, endColumn + 1),
                                 "Hidden Pattern: " \o info.category \o " - " \o info.message,
                                 info)
        ELSE IF ln < 0 \/ column < 0
             THEN Diagnostic(Range(MathMax0(ln), MathMax0(column),
                                   MathMax0(ln), MathMax0(column + 1)),
                             "Hidden Character: " \o info.category
                                 \o " - Invalid range detected (L"
                                 \o numberToString(info.line) \o "C"
                                 \o numberToString(info.column) \o "). "
                                 \o info.message,
                             info)
             ELSE Diagnostic(Range(ln, column, ln, column + 1),
                             "Hidden Character: " \o info.category \o charDisplay(info)
                                 \o " - " \o info.message,
                             info)

\* src/src/extension.ts, lines 65-124: results.map(...), nothing filtered
updateDiagnosticsOfExtensionTs(list) ==
    [k \in 1..Len(list) |-> diagnosticOfExtensionTs(list[k])]

\* decorations.ts, lines 69-104: the highlight options, in order
RECURSIVE highlightOptions(_)
highlightOptions(list) ==
    IF list = <<>> THEN <<>>
    ELSE LET info == Head(list)
             lineZeroBased == info.line - 1
             columnZeroBased == info.column
             rest == highlightOptions(Tail(list))
         IN  IF lineZeroBased < 0 \/ columnZeroBased < 0 THEN rest
             ELSE IF hasEndCoordinates(info)
             THEN LET endLineZeroBased == info.endLine - 1
                      endColumnZeroBased == info.endColumn
                  IN  IF \/ endLineZeroBased < lineZeroBased
                         \/ /\ endLineZeroBased = lineZeroBased
                            /\ endColumnZeroBased < columnZeroBased
                      THEN rest
                      ELSE <<[range |-> Range(lineZeroBased, columnZeroBased,
                                              endLineZeroBased, endColumnZeroBased + 1),
                              hoverMessage |-> "Hidden Pattern: " \o info.category
                                                   \o "\n" \o info.message]>> \o rest
             ELSE <<[range |-> Range(lineZeroBased, columnZeroBased,
                                     lineZeroBased, columnZeroBased + 1),
                     hoverMessage |-> "Hidden Character: " \o info.category
                                          \o charDisplay(info) \o "\n" \o info.message]>> \o rest

\* decorations.ts, lines 106-115: the lines of one accepted finding
gutterLinesOf(info) ==
    IF "endLine" \in DOMAIN info
    THEN (info.line - 1)..(info.endLine - 1)
    ELSE {info.line - 1}

\* decorations.ts, lines 67 and 106-125: one gutter range per line, in the
\* order in which the lines entered the Set
RECURSIVE uniqueLines(_, _)
uniqueLines(list, seen) ==
    IF list = <<>> THEN <<>>
    ELSE LET info == Head(list)
             accepted == highlightOptions(<<info>>) # <<>>
             fresh == IF accepted THEN gutterLinesOf(info) \ seen ELSE {}
             ordered == [k \in 1..Cardinality(fresh) |->
                            CHOOSE l \in fresh : Cardinality({m \in fresh : m < l}) = k - 1]
         IN  ordered \o uniqueLines(Tail(list), seen \cup fresh)

\* decorations.ts, lines 59-130
applyDecorations(list) ==
    [highlightOptions |-> highlightOptions(list),
     gutterOptions    |-> [k \in 1..Len(uniqueLines(list, {})) |->
                              [range |-> Range(uniqueLines(list, {})[k], 0,
                                               uniqueLines(list, {})[k], 0)]]]

\* decorations.ts, lines 136-143
clearDecorations == [highlightOptions |-> <<>>, gutterOptions |-> <<>>]

(***************************************************************************)
(* The builders applied to findings lists of any content: the findings of  *)
(* the detector and findings with coordinates the detector never produces. *)
(***************************************************************************)
\* single-character findings at lines 0..2 and columns -1..1
RenderSingles ==
    {SingleFinding(0, ln, col, ZWSP, allHiddenChars(ZWSP)) :
        ln \in 0..2, col \in -1..1}

\* pattern findings that start at lines 0..2 and columns -1..1 and end at
\* lines 1..2 and columns 0..1
RenderPatterns ==
    {PatternFinding(0, ln, col,
                    [patternLength |-> MIN_PATTERN_LENGTH,
                     patternEndIndex |-> MIN_PATTERN_LENGTH - 1,
                     patternEndLine |-> endLine,
                     patternEndColumn |-> endColumn]) :
        ln \in 0..2, col \in -1..1, endLine \in 1..2, endColumn \in 0..1}

RenderLists ==
    UNION {[1..n -> RenderSingles \cup RenderPatterns] : n \in 0..MaxFindings}

RenderInit ==
    /\ text = <<>>
    /\ i = 0
    /\ line = 1
    /\ currentLineStartIndex = 0
    /\ results = <<>>
    /\ pc = "idle"
    /\ returned = <<>>
    /\ hiddenCharacters \in RenderLists
    /\ rendered = NothingRendered
    /\ ExtensionNotLoaded

\* part_001, lines 74-76: updateDiagnostics(document, results)
CallUpdateDiagnostics ==
    /\ rendered.by = "none"
    /\ rendered' = [by |-> "updateDiagnostics",
                    entries |-> buildDiagnostics(hiddenCharacters),
                    gutter |-> <<>>]
    /\ UNCHANGED <<scannerVars, hiddenCharacters, extensionVars>>

\* src/src/extension.ts, lines 65-124: updateDiagnostics(document, results)
CallUpdateDiagnosticsOfExtensionTs ==
    /\ rendered.by = "none"
    /\ rendered' = [by |-> "updateDiagnosticsOfExtensionTs",
                    entries |-> updateDiagnosticsOfExtensionTs(hiddenCharacters),
                    gutter |-> <<>>]
    /\ UNCHANGED <<scannerVars, hiddenCharacters, extensionVars>>

\* decorations.ts, lines 59-130: applyDecorations(editor, hiddenCharacters)
CallApplyDecorations ==
    /\ rendered.by = "none"
    /\ rendered' = [by |-> "applyDecorations",
                    entries |-> applyDecorations(hiddenCharacters).highlightOptions,
                    gutter |-> applyDecorations(hiddenCharacters).gutterOptions]
    /\ UNCHANGED <<scannerVars, hiddenCharacters, extensionVars>>

RenderNext ==
    CallUpdateDiagnostics \/ CallUpdateDiagnosticsOfExtensionTs \/ CallApplyDecorations

RenderSpec == RenderInit /\ [][RenderNext]_vars

(***************************************************************************)
(* detectHiddenCharacters as the function the extension calls: the same    *)
(* iterations as PatternBranch and SingleCharacterBranch, run to the end.  *)
(***************************************************************************)
RECURSIVE scanFrom(_, _, _, _, _)
scanFrom(txt, k, ln, lineStart, acc) ==
    IF k >= Len(txt) THEN acc
    ELSE LET startColumn == k - lineStart
             startChar == At(txt, k)
             startCodePoint == codePointAt(txt, k)
             pat == DetectPattern(txt, k, ln, lineStart)
             hiddenInfo == allHiddenChars(startCodePoint)
         IN  IF IsPattern(pat)
             THEN scanFrom(txt, PatternNextI(k, pat.patternLength), pat.patternEndLine,
                           PatternLineStart(txt, pat.patternEndIndex),
                           Push(acc, PatternFinding(k, ln, startColumn, pat)))
             ELSE scanFrom(txt, SingleNextI(k, startCodePoint > 65535),
                           IF startChar = NEWLINE THEN ln + 1 ELSE ln,
                           IF startChar = NEWLINE THEN k + 1 ELSE lineStart,
                           IF hiddenInfo # NoInfo /\ ~skipDiagnostic(txt, k, startCodePoint)
                           THEN Push(acc, SingleFinding(k, ln, startColumn,
                                                        startCodePoint, hiddenInfo))
                           ELSE acc)

detectHiddenCharacters(txt) == scanFrom(txt, 0, 1, 0, <<>>)

(***************************************************************************)
(* src/unnamed/part_001: the extension.  Documents and files are named by  *)
(* their URI; "undefined" stands for no active editor.                     *)
(***************************************************************************)
Uris == {"file:///a", "file:///b"}

\* a clean text and a text with one hidden character
DocumentTexts == {<<97>>, <<97, ZWSP>>}

\* the documents that the user shows in an editor and closes; the others
\* are open all the time, and are saved, without an editor
EditorUris == {"file:///a"}

Configurations == [scanOnSave : BOOLEAN, enabled : BOOLEAN]

\* Map.prototype.set, DiagnosticCollection.set
MapSet(map, key, value) ==
    [k \in DOMAIN map \cup {key} |-> IF k = key THEN value ELSE map[k]]

\* Map.prototype.delete, DiagnosticCollection.delete
MapDelete(map, key) == [k \in DOMAIN map \ {key} |-> map[k]]

\* part_001, lines 145-172: updateStatusBar with a results argument, or with
\* the cached results when the argument is missing (hasResults = FALSE);
\* hide() keeps the text
updateStatusBar(item, editor, hasResults, resultsArg, cache) ==
    IF editor = "undefined" THEN [item EXCEPT !.visible = FALSE]
    ELSE LET known == hasResults \/ editor \in DOMAIN cache
             currentResults == IF hasResults THEN resultsArg
                               ELSE IF editor \in DOMAIN cache THEN cache[editor]
                               ELSE <<>>
         IN  IF known /\ Len(currentResults) > 0
             THEN [visible |-> TRUE,
                   text |-> "$(warning) Hidden: " \o toDecimal(Len(currentResults))]
             ELSE [item EXCEPT !.visible = FALSE]

\* the decorations of the one visible editor: an editor that is switched
\* away from is hidden and loses its decorations
visibleOnly(map, editor) ==
    [u \in DOMAIN map \cap {editor} |-> map[u]]

\* where a scan of the active document throws: nowhere, in a statement of
\* the try block of triggerScanUpdateAndDecorate that its catch block
\* catches, or in the diagnosticCollection.set of updateDiagnostics, which
\* the try block around it catches
Throws == {"nothing", "try", "set"}

\* part_001, lines 69-89: updateDiagnostics; an error of
\* diagnosticCollection.set is caught and logged (lines 81-88)
updateDiagnostics(collection, document, found, setThrows) ==
    IF setThrows THEN collection
    ELSE MapSet(collection, document, buildDiagnostics(found))

\* part_001, lines 26-62, on the status bar item as it is when the function
\* is called: the try block completes, or it throws and the catch block
\* undoes whatever the try block had done
scanUpdateAndDecorate(item, editor, throws) ==
    IF editor = "undefined"
    THEN /\ statusBarItem' = updateStatusBar(item, "undefined", FALSE, <<>>, scanResults)
         /\ decorations' = visibleOnly(decorations, editor)
         /\ UNCHANGED <<scanResults, diagnosticCollection>>
    ELSE IF throws = "try"
    THEN /\ scanResults' = MapDelete(scanResults, editor)
         /\ diagnosticCollection' = MapDelete(diagnosticCollection, editor)
         /\ decorations' = MapSet(visibleOnly(decorations, editor), editor, clearDecorations)
         /\ statusBarItem' = updateStatusBar(item, editor, TRUE, <<>>, scanResults')
    ELSE LET found == detectHiddenCharacters(fileContent[editor])
         IN  /\ scanResults' = MapSet(scanResults, editor, found)
             /\ diagnosticCollection' =
                    updateDiagnostics(diagnosticCollection, editor, found, throws = "set")
             /\ decorations' = MapSet(visibleOnly(decorations, editor), editor, applyDecorations(found))
             /\ statusBarItem' = updateStatusBar(item, editor, TRUE, found, scanResults')

\* part_001, lines 26-62: triggerScanUpdateAndDecorate(editor)
triggerScanUpdateAndDecorate(editor, throws) ==
    scanUpdateAndDecorate(statusBarItem, editor, throws)

\* the handles that setInterval can return
TimerIds == {1, 2}

\* part_001, lines 361-391: setupAutomaticWorkspaceScan; the initial scan is
\* left to a timeout of 100 ms, the periodic one to an interval timer
setupAutomaticWorkspaceScan(config) ==
    LET cleared == IF workspaceScanIntervalTimer # 0
                   THEN intervalTimers \ {workspaceScanIntervalTimer}
                   ELSE intervalTimers
    IN  IF config.enabled
        THEN /\ pendingTimeouts < MaxPendingTimeouts
             /\ \E id \in TimerIds \ cleared :
                    /\ \A other \in TimerIds \ cleared : id <= other
                    /\ workspaceScanIntervalTimer' = id
                    /\ intervalTimers' = cleared \cup {id}
             /\ pendingTimeouts' = pendingTimeouts + 1
        ELSE /\ workspaceScanIntervalTimer' = 0
             /\ intervalTimers' = cleared
             /\ UNCHANGED pendingTimeouts

\* part_001, lines 394-400: performWorkspaceScan up to the await of findFiles
performWorkspaceScan(showProgress) ==
    IF isWorkspaceScanRunning
    THEN UNCHANGED <<isWorkspaceScanRunning, workspaceScan>>
    ELSE /\ isWorkspaceScanRunning' = TRUE
         /\ workspaceScan' = [phase |-> "findFiles", files |-> <<>>, index |-> 0,
                              showProgress |-> showProgress,
                              isCancellationRequested |-> FALSE]

\* the result of findFiles, in a fixed order
RECURSIVE UriList(_)
UriList(set) ==
    IF set = {} THEN <<>>
    ELSE LET first == CHOOSE u \in set : \A v \in set : u = "file:///a" \/ v # "file:///a"
         IN  <<first>> \o UriList(set \ {first})

workspaceFileResult_KeepsOnError(cache, collection, fileUri, readOk, content) ==
    IF ~readOk
    THEN [scanResults |-> cache, diagnosticCollection |-> collection]
    ELSE LET found == detectHiddenCharacters(content)
             fileDiagnostics == buildDiagnostics(found)
         IN  IF Len(found) > 0
             THEN IF Len(fileDiagnostics) > 0
                  THEN [scanResults |-> MapSet(cache, fileUri, found),
                        diagnosticCollection |-> MapSet(collection, fileUri, fileDiagnostics)]
                  ELSE [scanResults |-> MapDelete(cache, fileUri),
                        diagnosticCollection |-> MapDelete(collection, fileUri)]
             ELSE [scanResults |-> MapDelete(cache, fileUri),
                   diagnosticCollection |-> collection]

\* part_001, lines 487-532: what one file of a workspace scan does to the
\* cache and to the diagnostics
workspaceFileResult(cache, collection, fileUri, readOk, content) ==
    IF ~readOk
    THEN [scanResults |-> MapDelete(cache, fileUri),
          diagnosticCollection |-> MapDelete(collection, fileUri)]
    ELSE LET found == detectHiddenCharacters(content)
             fileDiagnostics == buildDiagnostics(found)
         IN  IF Len(found) > 0
             THEN IF Len(fileDiagnostics) > 0
                  THEN [scanResults |-> MapSet(cache, fileUri, found),
                        diagnosticCollection |-> MapSet(collection, fileUri, fileDiagnostics)]
                  ELSE [scanResults |-> MapDelete(cache, fileUri),
                        diagnosticCollection |-> MapDelete(collection, fileUri)]
             ELSE [scanResults |-> MapDelete(cache, fileUri),
                   diagnosticCollection |-> collection]

\* the state of the module before activate(), in any workspace
ExtensionInit ==
    /\ text = <<>>
    /\ i = 0
    /\ line = 1
    /\ currentLineStartIndex = 0
    /\ results = <<>>
    /\ pc = "idle"
    /\ returned = <<>>
    /\ hiddenCharacters = <<>>
    /\ rendered = NothingRendered
    /\ scanResults = EmptyMap
    /\ diagnosticCollection = EmptyMap
    /\ decorations = EmptyMap
    /\ statusBarItem = [visible |-> FALSE, text |-> ""]
    /\ workspaceFiles = Uris
    /\ activeTextEditor \in EditorUris \cup {"undefined"}
    /\ openDocuments \in {docs \in SUBSET Uris :
                            /\ Uris \ EditorUris \subseteq docs
                            /\ {activeTextEditor} \ {"undefined"} \subseteq docs}
    /\ fileContent \in [Uris -> DocumentTexts]
    /\ configuration \in Configurations
    /\ workspaceScanIntervalTimer = 0
    /\ intervalTimers = {}
    /\ pendingTimeouts = 0
    /\ isWorkspaceScanRunning = FALSE
    /\ workspaceScan = NoWorkspaceScan
    /\ extension = "notLoaded"

\* part_001, lines 176-335: activate
Activate ==
    /\ extension = "notLoaded"
    /\ extension' = "active"
    /\ \E throws \in Throws :
          /\ throws # "nothing" => activeTextEditor # "undefined"
          /\ LET shown == [visible |-> TRUE, text |-> "$(sync~spin) HCD Scan"]
             IN  IF activeTextEditor # "undefined"
                 THEN scanUpdateAndDecorate(shown, activeTextEditor, throws)
                 ELSE /\ statusBarItem' = updateStatusBar(shown, "undefined", FALSE, <<>>, scanResults)
                      /\ UNCHANGED <<scanResults, diagnosticCollection, decorations>>
    /\ setupAutomaticWorkspaceScan(configuration)
    /\ UNCHANGED <<scannerVars, renderVars, activeTextEditor, openDocuments,
                   workspaceFiles, fileContent, configuration,
                   isWorkspaceScanRunning, workspaceScan>>

onDidChangeActiveTextEditor_AlwaysScans(editor, throws) ==
    /\ extension = "active"
    /\ editor # activeTextEditor
    /\ activeTextEditor' = editor
    /\ openDocuments' = IF editor = "undefined" THEN openDocuments
                        ELSE openDocuments \cup {editor}
    /\ IF FALSE
       THEN /\ throws # "try"
            /\ decorations' = MapSet(EmptyMap, editor, applyDecorations(scanResults[editor]))
            /\ statusBarItem' = updateStatusBar(statusBarItem, editor, TRUE,
                                                scanResults[editor], scanResults)
            /\ diagnosticCollection' =
                   updateDiagnostics(diagnosticCollection, editor, scanResults[editor],
                                     throws = "set")
            /\ UNCHANGED scanResults
       ELSE /\ throws # "nothing" => editor # "undefined"
            /\ triggerScanUpdateAndDecorate(editor, throws)
    /\ UNCHANGED <<scannerVars, renderVars, workspaceFiles, fileContent, configuration,
                   workspaceScanIntervalTimer, intervalTimers, pendingTimeouts,
                   isWorkspaceScanRunning, workspaceScan, extension>>

\* part_001, lines 212-234: onDidChangeActiveTextEditor(editor); a document
\* that was not open is opened by the switch; throws says where the scan or
\* the update fails
onDidChangeActiveTextEditor(editor, throws) ==
    /\ extension = "active"
    /\ editor # activeTextEditor
    /\ activeTextEditor' = editor
    /\ openDocuments' = IF editor = "undefined" THEN openDocuments
                        ELSE openDocuments \cup {editor}
    /\ IF editor # "undefined" /\ editor \in DOMAIN scanResults
       THEN /\ throws # "try"
            /\ decorations' = MapSet(EmptyMap, editor, applyDecorations(scanResults[editor]))
            /\ statusBarItem' = updateStatusBar(statusBarItem, editor, TRUE,
                                                scanResults[editor], scanResults)
            /\ diagnosticCollection' =
                   updateDiagnostics(diagnosticCollection, editor, scanResults[editor],
                                     throws = "set")
            /\ UNCHANGED scanResults
       ELSE /\ throws # "nothing" => editor # "undefined"
            /\ triggerScanUpdateAndDecorate(editor, throws)
    /\ UNCHANGED <<scannerVars, renderVars, workspaceFiles, fileContent, configuration,
                   workspaceScanIntervalTimer, intervalTimers, pendingTimeouts,
                   isWorkspaceScanRunning, workspaceScan, extension>>

\* the user shows another document, or closes the last editor
ChangeActiveTextEditor ==
    /\ extension = "active"
    /\ \E editor \in EditorUris \cup {"undefined"} : \E throws \in Throws :
          onDidChangeActiveTextEditor(editor, throws)

onDidSaveTextDocument_AnyDocument(document, throws) ==
    /\ extension = "active"
    /\ document \in openDocuments
    /\ IF configuration.scanOnSave /\ activeTextEditor # "undefined"
       THEN triggerScanUpdateAndDecorate(activeTextEditor, throws)
       ELSE /\ throws = "nothing"
            /\ UNCHANGED <<scanResults, diagnosticCollection, decorations, statusBarItem>>
    /\ UNCHANGED <<scannerVars, renderVars, activeTextEditor, openDocuments,
                   workspaceFiles, fileContent, configuration,
                   workspaceScanIntervalTimer, intervalTimers, pendingTimeouts,
                   isWorkspaceScanRunning, workspaceScan, extension>>

\* part_001, lines 239-258: onDidSaveTextDocument(document); throws says
\* where the rescan, if there is one, fails
onDidSaveTextDocument(document, throws) ==
    /\ extension = "active"
    /\ document \in openDocuments
    /\ IF configuration.scanOnSave /\ activeTextEditor # "undefined"
          /\ activeTextEditor = document
       THEN triggerScanUpdateAndDecorate(activeTextEditor, throws)
       ELSE /\ throws = "nothing"
            /\ UNCHANGED <<scanResults, diagnosticCollection, decorations, statusBarItem>>
    /\ UNCHANGED <<scannerVars, renderVars, activeTextEditor, openDocuments,
                   workspaceFiles, fileContent, configuration,
                   workspaceScanIntervalTimer, intervalTimers, pendingTimeouts,
                   isWorkspaceScanRunning, workspaceScan, extension>>

\* a document is saved
SaveTextDocument ==
    /\ openDocuments # {}
    /\ \E document \in openDocuments : \E throws \in Throws :
          onDidSaveTextDocument(document, throws)

\* part_001, lines 263-274: onDidCloseTextDocument; the active editor has
\* moved on before the document closes, and the editor's decorations go
\* with the editor
onDidCloseTextDocument(document) ==
    /\ extension = "active"
    /\ document \in (openDocuments \cap EditorUris) \ {activeTextEditor}
    /\ openDocuments' = openDocuments \ {document}
    /\ decorations' = MapDelete(decorations, document)
    /\ scanResults' = MapDelete(scanResults, document)
    /\ statusBarItem' =
          IF activeTextEditor = "undefined"
          THEN updateStatusBar(statusBarItem, "undefined", FALSE, <<>>, scanResults')
          ELSE statusBarItem
    /\ UNCHANGED <<scannerVars, renderVars, diagnosticCollection, activeTextEditor,
                   workspaceFiles, fileContent, configuration,
                   workspaceScanIntervalTimer, intervalTimers, pendingTimeouts,
                   isWorkspaceScanRunning, workspaceScan, extension>>

\* a document that is not in the active editor is closed
CloseTextDocument ==
    /\ openDocuments # {}
    /\ \E document \in openDocuments \cap EditorUris : onDidCloseTextDocument(document)

\* part_001, lines 279-297: onDidDeleteFiles for one deleted file
onDidDeleteFiles(fileUri) ==
    /\ extension = "active"
    /\ fileUri \in workspaceFiles
    /\ workspaceFiles' = workspaceFiles \ {fileUri}
    /\ diagnosticCollection' = MapDelete(diagnosticCollection, fileUri)
    /\ scanResults' = MapDelete(scanResults, fileUri)
    /\ statusBarItem' =
          IF activeTextEditor = "undefined"
          THEN updateStatusBar(statusBarItem, "undefined", FALSE, <<>>, scanResults')
          ELSE statusBarItem
    /\ UNCHANGED <<scannerVars, renderVars, decorations, activeTextEditor, openDocuments,
                   fileContent, configuration,
                   workspaceScanIntervalTimer, intervalTimers, pendingTimeouts,
                   isWorkspaceScanRunning, workspaceScan, extension>>

\* a file of the workspace is deleted
DeleteFiles ==
    /\ workspaceFiles # {}
    /\ \E fileUri \in workspaceFiles : onDidDeleteFiles(fileUri)

\* the user edits the document of the active editor; the extension has no
\* listener for it
ChangeContent ==
    /\ extension = "active"
    /\ \E fileUri \in Uris \cap {activeTextEditor} : \E content \in DocumentTexts :
          /\ content # fileContent[fileUri]
          /\ fileContent' = [fileContent EXCEPT ![fileUri] = content]
    /\ UNCHANGED <<scannerVars, renderVars, scanResults, diagnosticCollection, decorations,
                   statusBarItem, activeTextEditor, openDocuments, workspaceFiles,
                   configuration, workspaceScanIntervalTimer, intervalTimers,
                   pendingTimeouts, isWorkspaceScanRunning, workspaceScan, extension>>

\* part_001, lines 302-309: onDidChangeConfiguration for a setting of the
\* extension
ChangeConfiguration ==
    /\ extension = "active"
    /\ \E config \in Configurations :
          /\ configuration' = config
          /\ setupAutomaticWorkspaceScan(config)
    /\ UNCHANGED <<scannerVars, renderVars, scanResults, diagnosticCollection, decorations,
                   statusBarItem, activeTextEditor, openDocuments, workspaceFiles,
                   fileContent, isWorkspaceScanRunning, workspaceScan, extension>>

\* part_001, lines 323-332: the command
\* hiddenCharacterDetector.scanActiveEditor; throws says where the scan
\* fails
scanActiveEditor(throws) ==
    /\ extension = "active"
    /\ activeTextEditor # "undefined"
    /\ triggerScanUpdateAndDecorate(activeTextEditor, throws)
    /\ UNCHANGED <<scannerVars, renderVars, activeTextEditor, openDocuments,
                   workspaceFiles, fileContent, configuration,
                   workspaceScanIntervalTimer, intervalTimers, pendingTimeouts,
                   isWorkspaceScanRunning, workspaceScan, extension>>

\* the user runs the command
ScanActiveEditorCommand ==
    /\ activeTextEditor # "undefined"
    /\ \E throws \in Throws : scanActiveEditor(throws)

\* part_001, lines 313-315: the command hiddenCharacterDetector.scanWorkspace
ScanWorkspaceCommand ==
    /\ extension = "active"
    /\ performWorkspaceScan(TRUE)
    /\ UNCHANGED <<scannerVars, renderVars, scanResults, diagnosticCollection, decorations,
                   statusBarItem, activeTextEditor, openDocuments, workspaceFiles,
                   fileContent, configuration, workspaceScanIntervalTimer,
                   intervalTimers, pendingTimeouts, extension>>

\* part_001, lines 385-387: the interval timer fires
IntervalFires ==
    /\ extension = "active"
    /\ intervalTimers # {}
    /\ performWorkspaceScan(FALSE)
    /\ UNCHANGED <<scannerVars, renderVars, scanResults, diagnosticCollection, decorations,
                   statusBarItem, activeTextEditor, openDocuments, workspaceFiles,
                   fileContent, configuration, workspaceScanIntervalTimer,
                   intervalTimers, pendingTimeouts, extension>>

\* part_001, lines 379-382: the timeout of the initial scan fires
TimeoutFires ==
    /\ extension = "active"
    /\ pendingTimeouts > 0
    /\ pendingTimeouts' = pendingTimeouts - 1
    /\ performWorkspaceScan(FALSE)
    /\ UNCHANGED <<scannerVars, renderVars, scanResults, diagnosticCollection, decorations,
                   statusBarItem, activeTextEditor, openDocuments, workspaceFiles,
                   fileContent, configuration, workspaceScanIntervalTimer,
                   intervalTimers, extension>>

\* part_001, lines 410-423 and 555-561: the scan ends; a scan that ran to
\* the end of its loop updates the status bar, a cancelled one does not
finishWorkspaceScan(completed, cache) ==
    /\ isWorkspaceScanRunning' = FALSE
    /\ workspaceScan' = NoWorkspaceScan
    /\ statusBarItem' =
          IF ~completed THEN statusBarItem
          ELSE IF activeTextEditor = "undefined"
          THEN updateStatusBar(statusBarItem, "undefined", FALSE, <<>>, cache)
          ELSE IF activeTextEditor \in DOMAIN cache
          THEN updateStatusBar(statusBarItem, activeTextEditor, TRUE,
                               cache[activeTextEditor], cache)
          ELSE updateStatusBar(statusBarItem, activeTextEditor, FALSE, <<>>, cache)

\* part_001, lines 444-477: findFiles resolves; no file clears every
\* diagnostic, otherwise the loop makes its first cancellation check and
\* starts to read the first file
FindFilesReturns ==
    /\ extension = "active"
    /\ workspaceScan.phase = "findFiles"
    /\ LET files == UriList(workspaceFiles)
       IN  IF Len(files) = 0
           THEN /\ diagnosticCollection' = EmptyMap
                /\ finishWorkspaceScan(FALSE, scanResults)
           ELSE /\ UNCHANGED diagnosticCollection
                /\ IF workspaceScan.isCancellationRequested
                   THEN finishWorkspaceScan(FALSE, scanResults)
                   ELSE /\ workspaceScan' = [workspaceScan EXCEPT !.phase = "readFile",
                                                                 !.files = files,
                                                                 !.index = 0]
                        /\ UNCHANGED <<isWorkspaceScanRunning, statusBarItem>>
    /\ UNCHANGED <<scannerVars, renderVars, scanResults, decorations, activeTextEditor,
                   openDocuments, workspaceFiles, fileContent, configuration,
                   workspaceScanIntervalTimer, intervalTimers, pendingTimeouts, extension>>

readFileSettles_NoCancellationCheck(resolves) ==
    /\ extension = "active"
    /\ workspaceScan.phase = "readFile"
    /\ LET fileUri == workspaceScan.files[workspaceScan.index + 1]
           readOk == resolves /\ fileUri \in workspaceFiles
           after == workspaceFileResult(scanResults, diagnosticCollection, fileUri,
                                        readOk, fileContent[fileUri])
       IN  /\ scanResults' = after.scanResults
           /\ diagnosticCollection' = after.diagnosticCollection
           /\ IF workspaceScan.index + 1 < Len(workspaceScan.files)
              THEN IF FALSE
                   THEN finishWorkspaceScan(FALSE, after.scanResults)
                   ELSE /\ workspaceScan' =
                              [workspaceScan EXCEPT !.index = workspaceScan.index + 1]
                        /\ UNCHANGED <<isWorkspaceScanRunning, statusBarItem>>
              ELSE finishWorkspaceScan(TRUE, after.scanResults)
    /\ UNCHANGED <<scannerVars, renderVars, decorations, activeTextEditor,
                   openDocuments, workspaceFiles, fileContent, configuration,
                   workspaceScanIntervalTimer, intervalTimers, pendingTimeouts, extension>>

\* part_001, lines 469-561: readFile of files[index] resolves or rejects; the
\* file is processed, then the loop checks for cancellation and starts the
\* next file, or ends
readFileSettles(resolves) ==
    /\ extension = "active"
    /\ workspaceScan.phase = "readFile"
    /\ LET fileUri == workspaceScan.files[workspaceScan.index + 1]
           readOk == resolves /\ fileUri \in workspaceFiles
           after == workspaceFileResult(scanResults, diagnosticCollection, fileUri,
                                        readOk, fileContent[fileUri])
       IN  /\ scanResults' = after.scanResults
           /\ diagnosticCollection' = after.diagnosticCollection
           /\ IF workspaceScan.index + 1 < Len(workspaceScan.files)
              THEN IF workspaceScan.isCancellationRequested
                   THEN finishWorkspaceScan(FALSE, after.scanResults)
                   ELSE /\ workspaceScan' =
                              [workspaceScan EXCEPT !.index = workspaceScan.index + 1]
                        /\ UNCHANGED <<isWorkspaceScanRunning, statusBarItem>>
              ELSE finishWorkspaceScan(TRUE, after.scanResults)
    /\ UNCHANGED <<scannerVars, renderVars, decorations, activeTextEditor,
                   openDocuments, workspaceFiles, fileContent, configuration,
                   workspaceScanIntervalTimer, intervalTimers, pendingTimeouts, extension>>

\* the read of the current file of the workspace scan ends
ReadFileReturns ==
    /\ workspaceScan.phase = "readFile"
    /\ \E resolves \in BOOLEAN : readFileSettles(resolves)

\* part_001, lines 402-408: the user presses Cancel on the progress
\* notification of a manual scan; a background scan has a token nobody cancels
CancelRequest ==
    /\ extension = "active"
    /\ workspaceScan.phase # "idle"
    /\ workspaceScan.showProgress
    /\ ~workspaceScan.isCancellationRequested
    /\ workspaceScan' = [workspaceScan EXCEPT !.isCancellationRequested = TRUE]
    /\ UNCHANGED <<scannerVars, renderVars, scanResults, diagnosticCollection, decorations,
                   statusBarItem, activeTextEditor, openDocuments, workspaceFiles,
                   fileContent, configuration, workspaceScanIntervalTimer,
                   intervalTimers, pendingTimeouts, isWorkspaceScanRunning, extension>>

\* part_001, lines 338-358: deactivate; the output channel is disposed (line
\* 349) before the line that writes to it (line 350), and that write either
\* returns or throws, leaving the rest of the function undone
Deactivate ==
    /\ extension = "active"
    /\ extension' = "deactivated"
    /\ decorations' = EmptyMap
    /\ diagnosticCollection' = EmptyMap
    /\ statusBarItem' = [statusBarItem EXCEPT !.visible = FALSE]
    /\ scanResults' = EmptyMap
    /\ \E appendLineThrows \in BOOLEAN :
          IF ~appendLineThrows /\ workspaceScanIntervalTimer # 0
          THEN /\ intervalTimers' = intervalTimers \ {workspaceScanIntervalTimer}
               /\ workspaceScanIntervalTimer' = 0
          ELSE UNCHANGED <<intervalTimers, workspaceScanIntervalTimer>>
    /\ UNCHANGED <<scannerVars, renderVars, activeTextEditor, openDocuments,
                   workspaceFiles, fileContent, configuration, pendingTimeouts,
                   isWorkspaceScanRunning, workspaceScan>>

ExtensionNext ==
    \/ Activate
    \/ ChangeActiveTextEditor
    \/ SaveTextDocument
    \/ CloseTextDocument
    \/ DeleteFiles
    \/ ChangeContent
    \/ ChangeConfiguration
    \/ ScanActiveEditorCommand
    \/ ScanWorkspaceCommand
    \/ IntervalFires
    \/ TimeoutFires
    \/ FindFilesReturns
    \/ ReadFileReturns
    \/ CancelRequest
    \/ Deactivate

ExtensionSpec == ExtensionInit /\ [][ExtensionNext]_vars

(***************************************************************************)
(* Vocabulary of the properties, stated on the text and the returned list  *)
(* without reference to the scanner's own operators.                       *)
(***************************************************************************)
Positions(txt) == 0..(Len(txt) - 1)

PatternAlphabet == {8203, 8204, 8205, 65279, 8290, 8292}

\* s..e is a maximal run of pattern-alphabet code points of txt
IsMaximalRun(txt, s, e) ==
    /\ s <= e
    /\ \A k \in s..e : At(txt, k) \in PatternAlphabet
    /\ s = 0 \/ At(txt, s - 1) \notin PatternAlphabet
    /\ e = Len(txt) - 1 \/ At(txt, e + 1) \notin PatternAlphabet

\* position p lies in a maximal run of at least 8 code points
InQualifyingRun(txt, p) ==
    \E s \in 0..p : \E e \in p..(Len(txt) - 1) :
        IsMaximalRun(txt, s, e) /\ e - s + 1 >= 8

\* the findings of the list whose index is p
FindingsAt(p) == {k \in DOMAIN results : results[k].index = p}

IsPatternFinding(f) == f.category = "BinaryEncodingPattern"

\* C1: every maximal run of 8 or more pattern-alphabet code points yields
\* exactly one BinaryEncodingPattern finding, which starts at the run's first
\* code point and ends at its last, and no single-character finding has its
\* index inside the run.
RunAbsorption ==
    pc = "done" =>
        \A s \in Positions(text) : \A e \in s..(Len(text) - 1) :
            (IsMaximalRun(text, s, e) /\ e - s + 1 >= 8) =>
                /\ Cardinality({k \in DOMAIN results : results[k].index \in s..e}) = 1
                /\ \E k \in FindingsAt(s) :
                      /\ IsPatternFinding(results[k])
                      /\ results[k].endIndex = e

WitnessRunAbsorption ==
    /\ pc = "done"
    /\ \E s \in Positions(text) : \E e \in s..(Len(text) - 1) :
          /\ IsMaximalRun(text, s, e)
          /\ e - s + 1 >= 8
          /\ \E k \in s..e : At(text, k) \in zeroWidthChars
          /\ \E k \in FindingsAt(s) : IsPatternFinding(results[k])
          /\ s > 0
          /\ e < Len(text) - 1

\* the final list for the short runs, and the step taken inside one
ShortRunClassified ==
    pc = "done" =>
        \A s \in Positions(text) : \A e \in s..(Len(text) - 1) :
            (IsMaximalRun(text, s, e) /\ e - s + 1 < 8) =>
                \A p \in s..e :
                    /\ \A k \in FindingsAt(p) : ~IsPatternFinding(results[k])
                    /\ At(text, p) \in {8203, 8204, 65279} =>
                          /\ Cardinality(FindingsAt(p)) = 1
                          /\ \A k \in FindingsAt(p) :
                                /\ results[k].category = "Zero-Width"
                                /\ results[k].codePoint = At(text, p)
                    /\ At(text, p) \in {8290, 8292} => FindingsAt(p) = {}

ShortRunOnePerStep ==
    (/\ pc = "scan"
     /\ i < Len(text)
     /\ \E s \in 0..i : \E e \in i..(Len(text) - 1) :
           IsMaximalRun(text, s, e) /\ e - s + 1 < 8)
        => (i' = i + 1 /\ Len(results') <= Len(results) + 1)

\* C2: a maximal run of fewer than 8 pattern-alphabet code points yields no
\* pattern finding; its code points are classified one per step: U+200B,
\* U+200C and U+FEFF give one Zero-Width finding each at their own index,
\* U+2062 and U+2064 give none, so n zero-width spaces give n findings.
ShortRunFallThrough == [](ShortRunClassified) /\ [][ShortRunOnePerStep]_vars

WitnessShortRunFallThrough ==
    /\ pc = "done"
    /\ \E s \in Positions(text) :
          /\ s + 6 < Len(text)
          /\ IsMaximalRun(text, s, s + 6)
          /\ \A p \in s..(s + 6) : At(text, p) = ZWSP
          /\ \A p \in s..(s + 6) : FindingsAt(p) # {}

\* the newlines before position p and the start of p's line
NewlinesBefore(txt, p) == {k \in 0..(p - 1) : At(txt, k) = 10}

LineStartBefore(txt, p) ==
    IF NewlinesBefore(txt, p) = {} THEN 0
    ELSE (CHOOSE k \in NewlinesBefore(txt, p) :
              \A m \in NewlinesBefore(txt, p) : m <= k) + 1

\* C4: every finding has line = 1 + the number of newlines before its index
\* and column = its index minus the position after the last newline before
\* it (minus 0 when there is none).
LineColumnLaw ==
    \A k \in DOMAIN results :
        /\ results[k].line = 1 + Cardinality(NewlinesBefore(text, results[k].index))
        /\ results[k].column = results[k].index - LineStartBefore(text, results[k].index)

WitnessLineColumnLaw ==
    /\ pc = "done"
    /\ \E j \in DOMAIN results : \E k \in DOMAIN results :
          /\ j < k
          /\ IsPatternFinding(results[j])
          /\ results[j].line = 2
          /\ results[k].line = 2
          /\ results[k].column > 0
    /\ \E k \in DOMAIN results : results[k].line = 3

\* the order of the list, and what one step may do to it
StrictlyAscending ==
    \A j \in DOMAIN results : \A k \in DOMAIN results :
        j < k => results[j].index < results[k].index

AppendedAtCursor ==
    \/ results' = results
    \/ /\ Len(results') = Len(results) + 1
       /\ SubSeq(results', 1, Len(results)) = results
       /\ results'[Len(results')].index = i

\* C5: the list is sorted by index strictly ascending, and a step either
\* leaves the list alone or appends one finding whose index is the cursor.
Ordering == [](StrictlyAscending) /\ [][AppendedAtCursor]_vars

WitnessOrdering ==
    /\ pc = "done"
    /\ Len(results) >= 3
    /\ \E k \in DOMAIN results : IsPatternFinding(results[k])
    /\ \E k \in DOMAIN results : ~IsPatternFinding(results[k])

\* s..e starts and ends on a pattern-alphabet code point, holds only
\* pattern-alphabet code points and newlines, and cannot be extended
IsRunAcrossNewlines(txt, s, e) ==
    /\ s <= e
    /\ At(txt, s) \in PatternAlphabet
    /\ At(txt, e) \in PatternAlphabet
    /\ \A k \in s..e : At(txt, k) \in PatternAlphabet \cup {10}
    /\ s = 0 \/ At(txt, s - 1) \notin PatternAlphabet \cup {10}
    /\ ~\E k \in (e + 1)..(Len(txt) - 1) :
          /\ At(txt, k) \in PatternAlphabet
          /\ \A m \in (e + 1)..(k - 1) : At(txt, m) = 10

\* C3: a newline inside a run does not end it: from a run's first code
\* point the run extends over pattern-alphabet code points and newlines, and
\* when it holds 8 or more pattern-alphabet code points there is one pattern
\* finding that starts at the run's first code point, reaches its last
\* pattern-alphabet code point, and has endLine > line when a newline was
\* crossed.
NewlineInsideRunContinues ==
    pc = "done" =>
        \A s \in Positions(text) : \A e \in s..(Len(text) - 1) :
            (/\ IsRunAcrossNewlines(text, s, e)
             /\ Cardinality({k \in s..e : At(text, k) \in PatternAlphabet}) >= 8) =>
                \E k \in FindingsAt(s) :
                    /\ IsPatternFinding(results[k])
                    /\ results[k].endIndex = e
                    /\ (\E m \in s..e : At(text, m) = 10) =>
                          results[k].endLine > results[k].line

\* The previous base code point of position p as the heuristics describe it:
\* step back over one U+FE0F, then take the code point that ends there, a
\* surrogate pair counting as one code point; -1 when there is none.
PrecedingBase(txt, p) ==
    LET q == IF p >= 1 /\ At(txt, p - 1) = 65039 THEN p - 1 ELSE p
    IN  IF q <= 0 THEN -1
        ELSE IF q >= 2 /\ isHighSurrogate(At(txt, q - 2)) /\ isLowSurrogate(At(txt, q - 1))
        THEN (At(txt, q - 2) - 55296) * 1024 + (At(txt, q - 1) - 56320) + 65536
        ELSE At(txt, q - 1)

\* the code point that starts at position p, -1 past the end of the text
FollowingCodePoint(txt, p) ==
    IF p >= Len(txt) THEN -1
    ELSE IF /\ p + 1 < Len(txt)
            /\ isHighSurrogate(At(txt, p))
            /\ isLowSurrogate(At(txt, p + 1))
    THEN (At(txt, p) - 55296) * 1024 + (At(txt, p + 1) - 56320) + 65536
    ELSE At(txt, p)

JoinerIsLegitimate(txt, p) ==
    /\ PrecedingBase(txt, p) # -1
    /\ IsEmojiComponentBase(PrecedingBase(txt, p))
    /\ FollowingCodePoint(txt, p + 1) # -1
    /\ \/ FollowingCodePoint(txt, p + 1) = 65039
       \/ ~IsControlOrSeparator(FollowingCodePoint(txt, p + 1))

\* C7: a U+200D outside a qualifying run yields no finding if and only if
\* (a) its preceding base code point has the Emoji or Emoji_Modifier_Base
\* property and (b) a code point follows it that is U+FE0F or is not a
\* control or separator character; otherwise it yields a Zero-Width finding.
ZWJSuppression ==
    pc = "done" =>
        \A p \in Positions(text) :
            (At(text, p) = 8205 /\ ~InQualifyingRun(text, p)) =>
                IF JoinerIsLegitimate(text, p)
                THEN FindingsAt(p) = {}
                ELSE /\ Cardinality(FindingsAt(p)) = 1
                     /\ \A k \in FindingsAt(p) :
                           /\ results[k].category = "Zero-Width"
                           /\ results[k].codePoint = 8205

WitnessZWJSuppression ==
    /\ pc = "done"
    /\ text = <<55357, 56832, 65039, 8205, 10084>>
    /\ results = <<>>

\* printable ASCII, tab, newline and carriage return
PlainTextUnits == (32..126) \cup {9, 10, 13}

\* C8: a U+200D outside a qualifying run whose preceding character is an
\* ordinary text character (a printable ASCII character, a tab, a newline or
\* a carriage return), or that is the last code point of the text, yields a
\* Zero-Width finding.
JoinerNextToPlainTextReported ==
    pc = "done" =>
        \A p \in Positions(text) :
            (/\ At(text, p) = 8205
             /\ ~InQualifyingRun(text, p)
             /\ \/ p > 0 /\ At(text, p - 1) \in PlainTextUnits
                \/ p = Len(text) - 1) =>
                \E k \in FindingsAt(p) : results[k].category = "Zero-Width"

\* C9: the text 'Hel<U+200B>lo<U+202A>world<U+FE0F>' yields exactly three
\* findings, in order: Zero-Width at index and column 3, Bidirectional
\* Control at 6 and Variation Selector at 12, all on line 1.
ThreeFindingsOnOneLine ==
    (pc = "done" /\ text = TEXT_MULTIPLE) =>
        /\ Len(results) = 3
        /\ results[1].codePoint = 8203
        /\ results[1].category = "Zero-Width"
        /\ results[1].index = 3 /\ results[1].line = 1 /\ results[1].column = 3
        /\ results[2].codePoint = 8234
        /\ results[2].category = "Bidirectional Control"
        /\ results[2].index = 6 /\ results[2].line = 1 /\ results[2].column = 6
        /\ results[3].codePoint = 65039
        /\ results[3].category = "Variation Selector"
        /\ results[3].index = 12 /\ results[3].line = 1 /\ results[3].column = 12

\* C10: every occurrence of U+2028, U+2029 or U+180E yields a Zero-Width
\* finding at its position.
SeparatorsAreZeroWidth ==
    pc = "done" =>
        \A p \in Positions(text) :
            At(text, p) \in {8232, 8233, 6158} =>
                \E k \in FindingsAt(p) :
                    /\ results[k].category = "Zero-Width"
                    /\ results[k].codePoint = At(text, p)

\* position p is where a code point starts: it is not the low half of a
\* surrogate pair
IsCodePointStart(txt, p) ==
    ~(p >= 1 /\ isLowSurrogate(At(txt, p)) /\ isHighSurrogate(At(txt, p - 1)))

\* a step taken with the cursor on a surrogate pair moves it by two units
PairConsumedWhole ==
    (/\ pc = "scan"
     /\ i < Len(text)
     /\ FollowingCodePoint(text, i) > 65535) => i' = i + 2

\* a supplementary-plane registry member is reported once, at its first unit
SupplementaryReportedOnce ==
    pc = "done" =>
        \A p \in Positions(text) :
            (/\ IsCodePointStart(text, p)
             /\ FollowingCodePoint(text, p) \in {917505, 917760}) =>
                /\ Cardinality(FindingsAt(p)) = 1
                /\ FindingsAt(p + 1) = {}
                /\ \A k \in FindingsAt(p) :
                      /\ results[k].codePoint = FollowingCodePoint(text, p)
                      /\ results[k].character =
                            (IF FollowingCodePoint(text, p) = 917760
                             THEN "U+E0100" ELSE "U+E0001")
                      /\ results[k].column = p - LineStartBefore(text, p)
                /\ \A k \in DOMAIN results :
                      results[k].index > p =>
                          /\ results[k].index >= p + 2
                          /\ results[k].column =
                                results[k].index - LineStartBefore(text, results[k].index)

\* C11: a supplementary-plane registry member (U+E0100, U+E0001) is reported
\* once, with codePoint its scalar value, character 'U+E0100' or 'U+E0001'
\* and index and column the offset of its first unit; the cursor advances by
\* two units over a pair, so the low surrogate is never examined and later
\* findings count two units for it.
SurrogatePairLaw == [](SupplementaryReportedOnce) /\ [][PairConsumedWhole]_vars

WitnessSurrogatePairLaw ==
    /\ pc = "done"
    /\ Len(results) = 2
    /\ results[1].codePoint = 917760
    /\ results[1].index > 0
    /\ results[2].index = results[1].index + 2
    /\ results[2].column = results[1].column + 2

\* txt from position p on is base [U+FE0F] (U+200D base [U+FE0F])*, every
\* base having the Emoji property
RECURSIVE IsEmojiSequenceFrom(_, _)
IsEmojiSequenceFrom(txt, p) ==
    /\ p < Len(txt)
    /\ IsEmojiComponentBase(FollowingCodePoint(txt, p))
    /\ LET afterBase == IF FollowingCodePoint(txt, p) > 65535 THEN p + 2 ELSE p + 1
           afterVS == IF afterBase < Len(txt) /\ At(txt, afterBase) = 65039
                      THEN afterBase + 1 ELSE afterBase
       IN  \/ afterVS = Len(txt)
           \/ /\ afterVS < Len(txt)
              /\ At(txt, afterVS) = 8205
              /\ IsEmojiSequenceFrom(txt, afterVS + 1)

\* C12: for a text of the shape base [VS16] (ZWJ base [VS16])* whose bases
\* all have the Emoji property, every U+FE0F and U+200D is suppressed and the
\* returned list is empty.
EmojiSequencesAreClean ==
    (pc = "done" /\ IsEmojiSequenceFrom(text, 0)) => results = <<>>

WitnessEmojiSequencesAreClean ==
    /\ pc = "done"
    /\ IsEmojiSequenceFrom(text, 0)
    /\ Cardinality({p \in Positions(text) : At(text, p) = 8205}) >= 2
    /\ \E p \in Positions(text) : At(text, p) = 65039
    /\ \E p \in Positions(text) : isHighSurrogate(At(text, p))
    /\ results = <<>>

\* the registry members that no heuristic applies to
NeverSuppressed ==
    ({8203, 8204, 65279} \cup (8234..8238) \cup (8294..8297) \cup (65024..65038)
        \cup (917504..917631) \cup (917760..917999))

\* C13: bidirectional controls, deprecated tag characters, variation
\* selectors other than U+FE0F and zero-width characters other than U+200D
\* yield exactly one finding per occurrence outside a qualifying run,
\* whatever precedes or follows them.
NeverSuppressedReported ==
    pc = "done" =>
        \A p \in Positions(text) :
            (/\ IsCodePointStart(text, p)
             /\ FollowingCodePoint(text, p) \in NeverSuppressed
             /\ ~InQualifyingRun(text, p)) =>
                /\ Cardinality(FindingsAt(p)) = 1
                /\ \A k \in FindingsAt(p) :
                      results[k].codePoint = FollowingCodePoint(text, p)

WitnessNeverSuppressedReported ==
    /\ pc = "done"
    /\ Len(text) = 4
    /\ IsEmojiComponentBase(FollowingCodePoint(text, 0))
    /\ At(text, 2) = 8204
    /\ ~IsControlOrSeparator(At(text, 3))
    /\ FindingsAt(2) # {}

\* the category and message the registry is said to give a code point;
\* an empty category for a code point outside the four sets
RegistryEntry(cp) ==
    IF cp \in {8203, 8204, 8205, 65279}
    THEN <<"Zero-Width",
           "Zero-width character; invisible but can affect text processing.">>
    ELSE IF cp \in (8234..8238) \cup (8294..8297)
    THEN <<"Bidirectional Control",
           "Bidirectional control character; can alter text display order, potentially obfuscating logic.">>
    ELSE IF cp \in 917504..917631
    THEN <<"Deprecated Tag",
           "Deprecated Unicode tag character; may be used for obfuscation.">>
    ELSE IF cp \in (65024..65039) \cup (917760..917999)
    THEN <<"Variation Selector",
           "Variation selector; while sometimes legitimate, can be used in confusable character sequences.">>
    ELSE <<"", "">>

RegistrySetsDisjoint ==
    /\ zeroWidthChars \cap bidiControlChars = {}
    /\ zeroWidthChars \cap deprecatedTagChars = {}
    /\ zeroWidthChars \cap variationSelectors = {}
    /\ bidiControlChars \cap deprecatedTagChars = {}
    /\ bidiControlChars \cap variationSelectors = {}
    /\ deprecatedTagChars \cap variationSelectors = {}

EndFields == {"endIndex", "endLine", "endColumn"}

\* C15: endIndex, endLine and endColumn are present on a finding iff its
\* category is BinaryEncodingPattern; a single-character finding has none of
\* them, and a pattern finding has all three with (endLine, endColumn) not
\* before (line, column).
PointVersusRange ==
    \A k \in DOMAIN results :
        IF IsPatternFinding(results[k])
        THEN /\ EndFields \subseteq DOMAIN results[k]
             /\ \/ results[k].endLine > results[k].line
                \/ /\ results[k].endLine = results[k].line
                   /\ results[k].endColumn >= results[k].column
        ELSE EndFields \cap DOMAIN results[k] = {}

WitnessPointVersusRange ==
    /\ pc = "done"
    /\ Len(results) = 2
    /\ IsPatternFinding(results[1])
    /\ results[1].endColumn > results[1].column
    /\ ~IsPatternFinding(results[2])

\* the label and the message said to be given to a run of n code points
PatternLabelFor(n) ==
    CASE n = 8 -> "[Binary Pattern (8 chars)]"
      [] n = 9 -> "[Binary Pattern (9 chars)]"
      [] n = 10 -> "[Binary Pattern (10 chars)]"
      [] n = 11 -> "[Binary Pattern (11 chars)]"
      [] OTHER -> "?"

PatternMessageFor(n) ==
    CASE n = 8 -> "Potential binary encoding detected using a sequence of 8 zero-width characters."
      [] n = 9 -> "Potential binary encoding detected using a sequence of 9 zero-width characters."
      [] n = 10 -> "Potential binary encoding detected using a sequence of 10 zero-width characters."
      [] n = 11 -> "Potential binary encoding detected using a sequence of 11 zero-width characters."
      [] OTHER -> "?"

PatternFindingContent ==
    \A k \in DOMAIN results :
        IsPatternFinding(results[k]) =>
            \E e \in Positions(text) :
                /\ IsMaximalRun(text, results[k].index, e)
                /\ results[k].codePoint = -1
                /\ results[k].character = PatternLabelFor(e - results[k].index + 1)
                /\ results[k].message = PatternMessageFor(e - results[k].index + 1)
                /\ results[k].endIndex = results[k].index + (e - results[k].index + 1) - 1

CursorResumesAfterPattern ==
    (/\ Len(results') = Len(results) + 1
     /\ IsPatternFinding(results'[Len(results')]))
        => i' = results'[Len(results')].endIndex + 1

\* C16: a pattern finding for a run of N code points has codePoint = -1,
\* character '[Binary Pattern (N chars)]', a message that embeds the same N
\* and endIndex = index + N - 1, and the cursor resumes at endIndex + 1.
PatternContent == [](PatternFindingContent) /\ [][CursorResumesAfterPattern]_vars

WitnessPatternContent ==
    /\ pc = "done"
    /\ \E k \in DOMAIN results :
          /\ IsPatternFinding(results[k])
          /\ results[k].index > 0
          /\ results[k].character = "[Binary Pattern (9 chars)]"
          /\ results[k].endIndex = results[k].index + 8

\* unit p is a surrogate that is not half of a valid pair
IsIsolatedSurrogate(txt, p) ==
    \/ /\ isHighSurrogate(At(txt, p))
       /\ ~(p + 1 < Len(txt) /\ isLowSurrogate(At(txt, p + 1)))
    \/ /\ isLowSurrogate(At(txt, p))
       /\ ~(p >= 1 /\ isHighSurrogate(At(txt, p - 1)))

\* the cursor stays inside the text and on the first unit of a code point,
\* and isolated surrogates yield nothing
CursorInsideText ==
    /\ i >= 0 /\ i <= Len(text)
    /\ pc = "done" => i = Len(text)
    /\ i < Len(text) => IsCodePointStart(text, i)
    /\ \A p \in Positions(text) : IsIsolatedSurrogate(text, p) => FindingsAt(p) = {}

\* an iteration moves the cursor by 1, by 2 over a valid pair, or by the
\* length of the run after a pattern
CursorAdvances ==
    i' # i =>
        \/ i' = i + 1
        \/ i' = i + 2 /\ FollowingCodePoint(text, i) > 65535
        \/ /\ Len(results') = Len(results) + 1
           /\ IsPatternFinding(results'[Len(results')])
           /\ IsMaximalRun(text, i, i' - 1)

\* C17: for every text (the empty text, isolated surrogates, a run that
\* reaches the end, hidden characters at position 0) the scan terminates and
\* returns with the cursor at the text length; every step advances the
\* cursor by 1, by 2 for a valid pair or by the run length after a pattern,
\* the cursor never rests on the second unit of a valid pair, and an isolated
\* surrogate yields no finding.
TotalityAndTermination ==
    /\ [](CursorInsideText)
    /\ [][CursorAdvances /\ (pc = "scan" /\ pc' = "scan" => i' > i)]_vars
    /\ <>(pc = "done")

WitnessTotalityAndTermination ==
    /\ pc = "done"
    /\ i = Len(text)
    /\ Len(text) = 2
    /\ isLowSurrogate(At(text, 0))
    /\ isHighSurrogate(At(text, 1))
    /\ results = <<>>

(***************************************************************************)
(* Determinism and statelessness.                                          *)
(***************************************************************************)
\* equal texts were answered with equal lists, wherever they are in the log
SameTextSameList ==
    \A a \in 1..Len(returned) : \A b \in 1..Len(returned) :
        returned[a].text = returned[b].text
            => returned[a].results = returned[b].results

\* a call starts from the same locals whatever the call before it did
CallStartsFresh ==
    (pc = "done" /\ pc' = "scan") =>
        /\ i' = 0
        /\ line' = 1
        /\ currentLineStartIndex' = 0
        /\ results' = <<>>
        /\ returned' = returned

\* a returned list is never changed by a later call
LogOnlyGrows ==
    /\ Len(returned') >= Len(returned)
    /\ \A a \in 1..Len(returned) : returned'[a] = returned[a]

UpperHexDigitAt(cp, k) ==
    LET d == (cp \div (16 ^ k)) % 16
    IN  CASE d = 0 -> "0" [] d = 1 -> "1" [] d = 2 -> "2" [] d = 3 -> "3"
          [] d = 4 -> "4" [] d = 5 -> "5" [] d = 6 -> "6" [] d = 7 -> "7"
          [] d = 8 -> "8" [] d = 9 -> "9" [] d = 10 -> "A" [] d = 11 -> "B"
          [] d = 12 -> "C" [] d = 13 -> "D" [] d = 14 -> "E" [] d = 15 -> "F"

\* 'U+' and the upper-case hexadecimal digits of cp: always the four low
\* digits, the fifth and sixth only when cp needs them
HexLabel(cp) ==
    "U+" \o (IF cp >= 16 ^ 5 THEN UpperHexDigitAt(cp, 5) ELSE "")
         \o (IF cp >= 16 ^ 4 THEN UpperHexDigitAt(cp, 4) ELSE "")
         \o UpperHexDigitAt(cp, 3) \o UpperHexDigitAt(cp, 2)
         \o UpperHexDigitAt(cp, 1) \o UpperHexDigitAt(cp, 0)

SingleFindingContent ==
    \A k \in DOMAIN results :
        ~IsPatternFinding(results[k]) =>
            LET f == results[k]
                cp == FollowingCodePoint(text, f.index)
            IN  /\ f.codePoint = cp
                /\ f.character = HexLabel(cp)
                /\ <<f.category, f.message>> = RegistryEntry(cp)

HelloWorldFinding ==
    (pc = "done" /\ text = <<72, 101, 108, 108, 111, 8203, 119, 111, 114, 108, 100>>) =>
        results = << [character |-> "U+200B",
                      codePoint |-> 8203,
                      index     |-> 5,
                      line      |-> 1,
                      column    |-> 5,
                      category  |-> "Zero-Width",
                      message   |-> "Zero-width character; invisible but can affect text processing."] >>

\* C19: a single-character finding carries character = 'U+' followed by the
\* code point in upper-case hexadecimal with at least 4 digits (5 or 6 for
\* supplementary code points), codePoint = the scalar value at its index,
\* and the registry's category and message; for 'Hello<U+200B>world' the
\* result is exactly the one finding U+200B, 0x200B, index 5, line 1,
\* column 5, Zero-Width.
SingleFindingLabel ==
    SingleFindingContent /\ HelloWorldFinding

WitnessSingleFindingLabel ==
    /\ pc = "done"
    /\ text = <<72, 101, 108, 108, 111, 8203, 119, 111, 114, 108, 100>>
    /\ Len(results) = 1
    /\ results[1].character = "U+200B"

(***************************************************************************)
(* Clean text.                                                             *)
(***************************************************************************)
\* no code point of txt is a registry member or in the pattern alphabet
IsCleanText(txt) ==
    \A p \in Positions(txt) :
        IsCodePointStart(txt, p) =>
            /\ RegistryEntry(FollowingCodePoint(txt, p)) = <<"", "">>
            /\ FollowingCodePoint(txt, p) \notin PatternAlphabet

EndPrecedesStart(f) ==
    /\ "endLine" \in DOMAIN f
    /\ "endColumn" \in DOMAIN f
    /\ \/ f.endLine < f.line
       \/ f.endLine = f.line /\ f.endColumn < f.column

\* the finding has a one-based line, a zero-based column and an end that
\* does not precede its start
HasValidCoordinates(f) ==
    f.line >= 1 /\ f.column >= 0 /\ ~EndPrecedesStart(f)

CountWhere(list, Test(_)) == Cardinality({k \in DOMAIN list : Test(list[k])})

NotEndPrecedesStart(f) == ~EndPrecedesStart(f)

\* C21: no builder of the rendering layer (the diagnostics builders and the
\* decoration builder) makes an entry for a pattern finding whose end
\* position precedes its start position, and each goes on to make the
\* entries of the remaining findings: the entries are at most as many as the
\* findings whose end does not precede their start, and at least as many as
\* the findings with valid coordinates.
InvalidFindingsDropped ==
    rendered.by # "none" =>
        /\ Len(rendered.entries) <= CountWhere(hiddenCharacters, NotEndPrecedesStart)
        /\ Len(rendered.entries) >= CountWhere(hiddenCharacters, HasValidCoordinates)

\* the half-open range of a finding: from (line - 1, column) to one unit
\* past its last unit
ExpectedRange(f) ==
    [start |-> <<f.line - 1, f.column>>,
     end   |-> IF "endLine" \in DOMAIN f
               THEN <<f.endLine - 1, f.endColumn + 1>>
               ELSE <<f.line - 1, f.column + 1>>]

\* the ranges that the findings with valid coordinates call for, in order
ExpectedRanges(list) ==
    LET valid == SelectSeq(list, HasValidCoordinates)
    IN  [k \in 1..Len(valid) |-> ExpectedRange(valid[k])]

ProducedRanges == [k \in 1..Len(rendered.entries) |-> rendered.entries[k].range]

\* the members of a occur in b in the same order
IsSubsequence(a, b) ==
    \E at \in [1..Len(a) -> 1..Len(b)] :
        /\ \A k \in 1..Len(a) : b[at[k]] = a[k]
        /\ \A k \in 1..Len(a) : \A m \in 1..Len(a) : k < m => at[k] < at[m]

FilteringBuildersExact ==
    rendered.by \in {"updateDiagnostics", "applyDecorations"} =>
        /\ ProducedRanges = ExpectedRanges(hiddenCharacters)
        /\ InvalidFindingsDropped

(***************************************************************************)
(* Properties of the extension: timers, events, workspace scans            *)
(***************************************************************************)
\* a step in which a workspace scan without progress notification starts
AutomaticScanStarts ==
    /\ ~isWorkspaceScanRunning
    /\ isWorkspaceScanRunning'
    /\ ~workspaceScan'.showProgress

AtMostOneIntervalTimer ==
    extension = "active" => Cardinality(intervalTimers) <= 1

NoTimerWhileDisabled ==
    extension = "active" /\ ~configuration.enabled => intervalTimers = {}

NoAutomaticScanWhileDisabled ==
    extension = "active" /\ ~configuration.enabled => ~AutomaticScanStarts

NoTimerAfterDeactivation ==
    extension = "deactivated" => intervalTimers = {} /\ pendingTimeouts = 0

\* C23: automatic workspace scanning follows the setting: at most one
\* periodic timer is active after any sequence of configuration changes;
\* while automaticWorkspaceScan.enabled is false no timer is active and no
\* automatic workspace scan starts; after deactivation no timer remains.
TimersFollowSetting ==
    /\ [](AtMostOneIntervalTimer /\ NoTimerWhileDisabled /\ NoTimerAfterDeactivation)
    /\ [][NoAutomaticScanWhileDisabled]_vars

\* the claim's side of a successful scan of a document: the cache entry is
\* the scanner's list for the content, the diagnostics and the highlights
\* have the expected ranges of that list, and the status bar counts it
FreshlyScanned(document) ==
    LET found == detectHiddenCharacters(fileContent[document])
    IN  /\ document \in DOMAIN scanResults' /\ scanResults'[document] = found
        /\ document \in DOMAIN diagnosticCollection'
        /\ [k \in DOMAIN diagnosticCollection'[document] |->
               diagnosticCollection'[document][k].range] = ExpectedRanges(found)
        /\ document \in DOMAIN decorations'
        /\ [k \in DOMAIN decorations'[document].highlightOptions |->
               decorations'[document].highlightOptions[k].range] = ExpectedRanges(found)
        /\ statusBarItem'.visible = (Len(found) > 0)
        /\ Len(found) > 0 =>
              statusBarItem'.text = "$(warning) Hidden: " \o toDecimal(Len(found))

\* C24: a document-save event rescans the saved document, replacing its
\* cache entry, diagnostics and decorations, if and only if scanOnSave is
\* true and the saved document is the document of the active editor; every
\* other save leaves cache, diagnostics, decorations and status bar unchanged.
ScanOnSave ==
    [][\A document \in Uris : \A throws \in Throws :
          onDidSaveTextDocument(document, throws) =>
             IF configuration.scanOnSave /\ activeTextEditor = document
             THEN throws = "nothing" => FreshlyScanned(document)
             ELSE UNCHANGED <<scanResults, diagnosticCollection, decorations, statusBarItem>>]_vars

\* the active document was edited after its scan and a save has rescanned
\* it; the other document is open and its save did nothing
WitnessScanOnSave ==
    /\ extension = "active"
    /\ configuration.scanOnSave
    /\ activeTextEditor = "file:///a"
    /\ "file:///b" \in openDocuments
    /\ fileContent["file:///a"] = <<97, ZWSP>>
    /\ "file:///a" \in DOMAIN scanResults
    /\ Len(scanResults["file:///a"]) = 1
    /\ statusBarItem.text = "$(warning) Hidden: 1"

\* a step in which the workspace scan starts to read a file
ReadStarts ==
    /\ workspaceScan'.phase = "readFile"
    /\ workspaceScan.phase # "readFile" \/ workspaceScan'.index # workspaceScan.index

\* the step leaves the cache entry and the diagnostics of every URI but
\* fileUri as they were
OtherEntriesKept(fileUri) ==
    \A u \in Uris \ {fileUri} :
        /\ (u \in DOMAIN scanResults') = (u \in DOMAIN scanResults)
        /\ u \in DOMAIN scanResults => scanResults'[u] = scanResults[u]
        /\ (u \in DOMAIN diagnosticCollection') = (u \in DOMAIN diagnosticCollection)
        /\ u \in DOMAIN diagnosticCollection =>
               diagnosticCollection'[u] = diagnosticCollection[u]

\* the file of the workspace scan that is being read
CurrentFile == workspaceScan.files[workspaceScan.index + 1]

\* the step has scanned the whole content of fileUri: findings are recorded
\* with their diagnostics, and a file without findings has no cache entry
ScannedWhole(fileUri) ==
    LET found == detectHiddenCharacters(fileContent[fileUri])
    IN  IF Len(found) > 0
        THEN /\ fileUri \in DOMAIN scanResults' /\ scanResults'[fileUri] = found
             /\ fileUri \in DOMAIN diagnosticCollection'
             /\ [k \in DOMAIN diagnosticCollection'[fileUri] |->
                    diagnosticCollection'[fileUri][k].range] = ExpectedRanges(found)
        ELSE fileUri \notin DOMAIN scanResults'

\* C25: cancellation is per file: a workspace scan looks at the cancellation
\* request only before it starts a file; once cancellation is requested no
\* further file is read, the file whose read was under way is still scanned
\* whole, the entries written for the other files stay as written, and the
\* scan ends with the scan-in-progress flag cleared.
CancellationPerFile ==
    [][/\ workspaceScan.isCancellationRequested => ~ReadStarts
       /\ \A resolves \in BOOLEAN :
             readFileSettles(resolves) /\ workspaceScan.isCancellationRequested =>
                /\ OtherEntriesKept(CurrentFile)
                /\ resolves /\ CurrentFile \in workspaceFiles => ScannedWhole(CurrentFile)
                /\ ~isWorkspaceScanRunning'
                /\ workspaceScan'.phase = "idle"
       /\ FindFilesReturns /\ workspaceScan.isCancellationRequested =>
             /\ UNCHANGED scanResults
             /\ workspaceFiles # {} => UNCHANGED diagnosticCollection
             /\ ~isWorkspaceScanRunning'
             /\ workspaceScan'.phase = "idle"]_vars

\* a manual workspace scan was cancelled while it read the first of two
\* files, the document of the active editor, edited to be clean since its
\* scan: the file was processed, which removed its cache entry, and the scan
\* ended without the status bar update of a scan that runs to its end, so
\* the status bar still shows the count of the earlier scan
WitnessCancellationPerFile ==
    /\ extension = "active"
    /\ ~isWorkspaceScanRunning
    /\ workspaceFiles = Uris
    /\ activeTextEditor = "file:///a"
    /\ fileContent["file:///a"] = <<97>>
    /\ "file:///a" \notin DOMAIN scanResults
    /\ statusBarItem = [visible |-> TRUE, text |-> "$(warning) Hidden: 1"]
    /\ fileContent["file:///b"] = <<97, ZWSP>>
    /\ "file:///b" \notin DOMAIN scanResults
    /\ "file:///b" \notin DOMAIN diagnosticCollection

\* the read of the current file fails: readFile rejects, as it does for a
\* file that is gone
ReadFails(resolves) == ~(resolves /\ CurrentFile \in workspaceFiles)

\* C26: a per-file failure is recoverable: when the read of one file of a
\* workspace scan fails, the cache entry and the diagnostics of that file
\* are removed, the entries of every other file stay as they were, and the
\* scan goes on with the next file, or ends as a scan that ran to its end
\* when the file was the last one.
PerFileFailureRecoverable ==
    [][\A resolves \in BOOLEAN :
          readFileSettles(resolves) /\ ReadFails(resolves) =>
             /\ CurrentFile \notin DOMAIN scanResults'
             /\ CurrentFile \notin DOMAIN diagnosticCollection'
             /\ OtherEntriesKept(CurrentFile)
             /\ IF workspaceScan.index + 1 < Len(workspaceScan.files)
                      /\ ~workspaceScan.isCancellationRequested
                THEN /\ isWorkspaceScanRunning'
                     /\ workspaceScan'.phase = "readFile"
                     /\ workspaceScan'.files = workspaceScan.files
                     /\ workspaceScan'.index = workspaceScan.index + 1
                ELSE /\ ~isWorkspaceScanRunning'
                     /\ workspaceScan'.phase = "idle"]_vars

\* a workspace scan of two files is reading the second one; the first one
\* has a hidden character and is in no editor, and has neither a cache
\* entry nor diagnostics: its read has failed and the scan has gone on
WitnessPerFileFailureRecoverable ==
    /\ extension = "active"
    /\ isWorkspaceScanRunning
    /\ workspaceScan.phase = "readFile"
    /\ workspaceScan.files = <<"file:///a", "file:///b">>
    /\ workspaceScan.index = 1
    /\ workspaceFiles = Uris
    /\ activeTextEditor = "undefined"
    /\ "file:///a" \notin openDocuments
    /\ fileContent["file:///a"] = <<97, ZWSP>>
    /\ "file:///a" \notin DOMAIN scanResults
    /\ "file:///a" \notin DOMAIN diagnosticCollection

\* the collection shows diagnostics for the URI: it has an entry for it that
\* is not the empty list
ShowsDiagnostics(collection, u) ==
    u \in DOMAIN collection /\ Len(collection[u]) > 0

\* C27: a workspace scan clears the stale results of a file that is now
\* clean: after the scan has processed a file whose scan returns no finding,
\* neither the cache nor the diagnostics collection has an entry for the
\* file, whatever an earlier scan had recorded.
CleanFileCleared ==
    [][\A resolves \in BOOLEAN :
          /\ readFileSettles(resolves)
          /\ ~ReadFails(resolves)
          /\ detectHiddenCharacters(fileContent[CurrentFile]) = <<>>
          => /\ CurrentFile \notin DOMAIN scanResults'
             /\ ~ShowsDiagnostics(diagnosticCollection', CurrentFile)]_vars

\* C28: closing and deleting clear a document's results: after a
\* document-close event or a file-delete event for a URI neither the cache
\* nor the diagnostics collection has an entry for the URI, and the entries
\* of all other URIs are unchanged.
CloseAndDeleteClear ==
    [][\A u \in Uris :
          onDidCloseTextDocument(u) \/ onDidDeleteFiles(u) =>
             /\ u \notin DOMAIN scanResults'
             /\ ~ShowsDiagnostics(diagnosticCollection', u)
             /\ OtherEntriesKept(u)]_vars

\* the part of C28 that the handlers keep: a close removes the cache entry,
\* a delete removes the cache entry and the diagnostics, and neither
\* touches the entries of another URI
CloseClearsCacheDeleteClearsBoth ==
    [][\A u \in Uris :
          /\ onDidCloseTextDocument(u) =>
                u \notin DOMAIN scanResults' /\ OtherEntriesKept(u)
          /\ onDidDeleteFiles(u) =>
                /\ u \notin DOMAIN scanResults'
                /\ u \notin DOMAIN diagnosticCollection'
                /\ OtherEntriesKept(u)]_vars

\* the claim's side of re-applying cached findings to a document: the
\* highlights and the diagnostics have the expected ranges of the cached
\* list, and the status bar counts the list
ReappliedFrom(found, document) ==
    /\ document \in DOMAIN decorations'
    /\ [k \in DOMAIN decorations'[document].highlightOptions |->
           decorations'[document].highlightOptions[k].range] = ExpectedRanges(found)
    /\ document \in DOMAIN diagnosticCollection'
    /\ [k \in DOMAIN diagnosticCollection'[document] |->
           diagnosticCollection'[document][k].range] = ExpectedRanges(found)
    /\ statusBarItem'.visible = (Len(found) > 0)
    /\ Len(found) > 0 =>
          statusBarItem'.text = "$(warning) Hidden: " \o toDecimal(Len(found))

ScanOfActiveDocumentFails ==
    \E throws \in Throws \ {"nothing"} :
        \/ scanActiveEditor(throws)
        \/ /\ configuration.scanOnSave
           /\ onDidSaveTextDocument(activeTextEditor, throws)
        \/ \E editor \in EditorUris \ DOMAIN scanResults :
              onDidChangeActiveTextEditor(editor, throws)

\* C30: a failed scan leaves no stale results: when the scan of the active
\* document, or the update of its diagnostics or decorations, throws, the
\* cache entry and the diagnostics of the document are deleted, its
\* decorations are cleared and the status bar is hidden.
FailedScanLeavesNothing ==
    [][ScanOfActiveDocumentFails =>
          /\ activeTextEditor' \notin DOMAIN scanResults'
          /\ ~ShowsDiagnostics(diagnosticCollection', activeTextEditor')
          /\ activeTextEditor' \in DOMAIN decorations'
          /\ decorations'[activeTextEditor'].highlightOptions = <<>>
          /\ decorations'[activeTextEditor'].gutterOptions = <<>>
          /\ ~statusBarItem'.visible]_vars

\* after the step the status bar item is shown with the count N exactly
\* when there is an active editor and the cache entry of its document has
\* N > 0 findings, and is hidden otherwise
IndicatorFollowsCache ==
    LET n == IF activeTextEditor' # "undefined" /\ activeTextEditor' \in DOMAIN scanResults'
             THEN Len(scanResults'[activeTextEditor'])
             ELSE 0
    IN  /\ statusBarItem'.visible = (n > 0)
        /\ n > 0 => statusBarItem'.text = "$(warning) Hidden: " \o toDecimal(n)

\* a step of a handler that scans the document of the active editor
ActiveEditorScan ==
    \E throws \in Throws :
        \/ scanActiveEditor(throws)
        \/ /\ configuration.scanOnSave
           /\ activeTextEditor # "undefined"
           /\ onDidSaveTextDocument(activeTextEditor, throws)

\* a step in which the active editor changes
EditorSwitch ==
    \E editor \in EditorUris \cup {"undefined"} : \E throws \in Throws :
        onDidChangeActiveTextEditor(editor, throws)

\* a step in which a workspace scan ends because cancellation was requested
WorkspaceScanCancelled ==
    /\ workspaceScan.isCancellationRequested
    /\ \/ workspaceScan.phase = "findFiles" /\ workspaceFiles # {}
       \/ /\ workspaceScan.phase = "readFile"
          /\ workspaceScan.index + 1 < Len(workspaceScan.files)

\* a step in which a workspace scan ends without having been cancelled
WorkspaceScanCompletes ==
    /\ isWorkspaceScanRunning
    /\ ~isWorkspaceScanRunning'
    /\ ~WorkspaceScanCancelled

\* C31: after every scan of the active editor, every editor switch and every
\* completed workspace scan the status indicator is shown with the count N
\* if and only if there is an active editor and the findings recorded for
\* its document number N > 0; it is hidden when there is no active editor
\* or when the list of findings is empty or missing.
StatusIndicator ==
    [][ActiveEditorScan \/ EditorSwitch \/ WorkspaceScanCompletes
          => IndicatorFollowsCache]_vars

\* the part of C31 that holds: editor scans, editor switches and workspace
\* scans that run to the end of their loop leave the indicator as the cache
\* of the active document says
StatusIndicatorAfterLoopEnd ==
    [][\/ ActiveEditorScan
       \/ EditorSwitch
       \/ WorkspaceScanCompletes /\ workspaceScan.phase = "readFile"
          => IndicatorFollowsCache]_vars

(***************************************************************************)
(* Further properties of the scanner                                       *)
(***************************************************************************)
InvisibleOperators == {8290, 8292}

\* C32: U+2062 and U+2064 count toward the length of a run exactly like the
\* four zero-width characters, and a run may mix all six code points: a
\* maximal run of 8 or more yields one pattern finding over the whole run,
\* whose label has the run's length; they are in no registry set, so in a
\* run shorter than 8 they yield no finding, a text whose only hidden code
\* points are a short run of them gives an empty result, and a text that is
\* a run of 8 or more of them gives exactly one pattern finding.
InvisibleOperatorsInRuns ==
    pc = "done" =>
        /\ \A s \in Positions(text) : \A e \in s..(Len(text) - 1) :
              IsMaximalRun(text, s, e) =>
                 IF e - s + 1 >= 8
                 THEN /\ Cardinality({k \in DOMAIN results : results[k].index \in s..e}) = 1
                      /\ \E k \in FindingsAt(s) :
                            /\ IsPatternFinding(results[k])
                            /\ results[k].endIndex = e
                            /\ results[k].character = PatternLabelFor(e - s + 1)
                 ELSE \A p \in s..e :
                         At(text, p) \in InvisibleOperators => FindingsAt(p) = {}
        /\ (/\ \A p \in Positions(text) : At(text, p) \in InvisibleOperators \cup {97}
            /\ \A p \in Positions(text) : ~InQualifyingRun(text, p))
              => results = <<>>
        /\ (/\ Len(text) >= 8
            /\ \A p \in Positions(text) : At(text, p) \in InvisibleOperators)
              => /\ Len(results) = 1
                 /\ IsPatternFinding(results[1])

\* a run of nine code points that has all six members of the alphabet,
\* between two letters, has given one pattern finding
WitnessInvisibleOperatorsInRuns ==
    /\ pc = "done"
    /\ Len(text) = 11
    /\ IsMaximalRun(text, 1, 9)
    /\ \A cp \in PatternAlphabet : \E p \in 1..9 : At(text, p) = cp
    /\ Len(results) = 1
    /\ IsPatternFinding(results[1])
    /\ results[1].index = 1
    /\ results[1].endIndex = 9

\* a text of seven invisible operators has given an empty result
WitnessShortOperatorRun ==
    /\ pc = "done"
    /\ Len(text) = 7
    /\ \A p \in Positions(text) : At(text, p) \in InvisibleOperators
    /\ \E p \in Positions(text) : At(text, p) = 8292
    /\ results = <<>>

(***************************************************************************)
(* Further properties of the extension                                     *)
(***************************************************************************)
\* C33: cache and diagnostics agree: in every reachable state of the
\* extension a URI that has a non-empty entry in the results cache also has
\* diagnostics in the diagnostics collection that were built from that
\* entry.
CacheAndDiagnosticsAgree ==
    \A u \in Uris :
        (u \in DOMAIN scanResults /\ Len(scanResults[u]) > 0) =>
            /\ u \in DOMAIN diagnosticCollection
            /\ [k \in DOMAIN diagnosticCollection[u] |-> diagnosticCollection[u][k].range]
                  = ExpectedRanges(scanResults[u])

\* every code point that is a key of the registry
RegistryCodePoints == NeverSuppressed \cup {8205, 65039}

\* the U+FE0F at position p yields no finding
VS16IsSuppressed(p) ==
    /\ At(text, p) = 65039
    /\ FindingsAt(p) = {}

\* C34: a U+FE0F is suppressed only on behalf of a visible base: whenever a
\* U+FE0F yields no finding, the code point the lookback takes as its base
\* is not a registry member, and a U+FE0F whose base is another variation
\* selector (U+FE0E, or the first U+FE0F of a chain of three) is reported.
SuppressedOnlyForVisibleBase ==
    pc = "done" =>
        \A p \in Positions(text) :
            At(text, p) = 65039 =>
                /\ VS16IsSuppressed(p) => PrecedingBase(text, p) \notin RegistryCodePoints
                /\ PrecedingBase(text, p) \in (65024..65039) \cup (917760..917999) =>
                      /\ Cardinality(FindingsAt(p)) = 1
                      /\ \A k \in FindingsAt(p) : results[k].codePoint = 65039

\* what holds instead: the third U+FE0F of a chain and a U+FE0F after
\* U+FE0E are suppressed at position 0, after a newline and after a letter
SelectorBaseSuppresses ==
    pc = "done" =>
        \A p \in Positions(text) :
            (/\ At(text, p) = 65039
             /\ PrecedingBase(text, p) \in (65024..65039) \cup (917760..917999)) =>
                FindingsAt(p) = {}

WitnessSelectorBaseSuppresses ==
    /\ pc = "done"
    /\ Len(text) = 4
    /\ At(text, 0) = 10
    /\ At(text, 1) = 65039 /\ At(text, 2) = 65039 /\ At(text, 3) = 65039
    /\ Len(results) = 2
    /\ VS16IsSuppressed(3)

\* every pattern finding of the list is bounded on both sides by a code
\* point outside the alphabet or by an end of the text, and ends on the line
\* it starts on, as many columns further as its end index is from its index
PatternFindingsOnOneLine ==
    \A k \in DOMAIN results :
        IsPatternFinding(results[k]) =>
            /\ results[k].index > 0 =>
                  At(text, results[k].index - 1) \notin PatternAlphabet
            /\ results[k].endIndex + 1 < Len(text) =>
                  At(text, results[k].endIndex + 1) \notin PatternAlphabet
            /\ results[k].endLine = results[k].line
            /\ results[k].endColumn =
                  results[k].column + (results[k].endIndex - results[k].index)

\* a step that pushes a pattern finding leaves the line counter and the
\* line start as they were
PatternKeepsLineState ==
    (/\ pc = "scan"
     /\ Len(results') = Len(results) + 1
     /\ IsPatternFinding(results'[Len(results')])) =>
        /\ line' = line
        /\ currentLineStartIndex' = currentLineStartIndex

OtherLineTerminators == {13, 8232, 8233}

\* a step of the scan changes the line counter only on a U+000A, which adds
\* one and moves the line start behind it; on one of the other line
\* terminators it moves the cursor by one unit and nothing else
OnlyLineFeedAdvances ==
    (pc = "scan" /\ i < Len(text)) =>
        /\ line' # line => At(text, i) = 10
        /\ currentLineStartIndex' # currentLineStartIndex => At(text, i) = 10
        /\ (At(text, i) = 10 /\ i' # i) =>
              /\ line' = line + 1
              /\ currentLineStartIndex' = i + 1
        /\ (At(text, i) \in OtherLineTerminators /\ i' # i) =>
              /\ i' = i + 1
              /\ line' = line
              /\ currentLineStartIndex' = currentLineStartIndex
              /\ results' = results

\* a finding's line is one more than the number of U+000A before it, and its
\* column is the number of units between the last U+000A and it, the other
\* line terminators counting one unit each
FindingsCountLineFeedsOnly ==
    \A k \in DOMAIN results :
        LET p == results[k].index
        IN  /\ results[k].line =
                  1 + Cardinality({q \in 0..(p - 1) : At(text, q) = 10})
            /\ results[k].column =
                  Cardinality({q \in 0..(p - 1) :
                                  \A m \in q..(p - 1) : At(text, m) # 10})

\* C36: only U+000A advances the line counter: '\r', U+2028 and U+2029 leave
\* the line unchanged and occupy one column each, so with '\r\n' line ends a
\* finding's line counts the U+000A only and its column counts from the unit
\* after the U+000A.
OnlyLineFeedStartsLine ==
    [](FindingsCountLineFeedsOnly) /\ [][OnlyLineFeedAdvances]_vars

WitnessOnlyLineFeedStartsLine ==
    /\ pc = "done"
    /\ line = 2
    /\ \E p \in Positions(text) : \E j \in DOMAIN results : \E k \in DOMAIN results :
          /\ p >= 1
          /\ At(text, p - 1) = 13
          /\ At(text, p) = 10
          /\ results[j].index < p
          /\ results[j].line = 1
          /\ \E q \in 0..(results[j].index - 1) : At(text, q) \in OtherLineTerminators
          /\ results[j].column = results[j].index
          /\ results[k].index > p + 1
          /\ At(text, results[k].index - 1) \in OtherLineTerminators
          /\ results[k].line = 2
          /\ results[k].column = results[k].index - (p + 1)


====
